---- MODULE Spec2Model ----
(***************************************************************************)
(* A model of uninttp::uni_auto (src/uninttp/uni_auto.hpp).                *)
(*                                                                         *)
(* The state is the memory of a calling program (a few named objects of   *)
(* different types) and the uni_auto objects it has built.  One action     *)
(* per operation of the header: construction (with class template argument *)
(* deduction), the conversion operator, copying, assignment, the forwarded *)
(* operators (+, -, +=, ++, --, &&, ||, the call), the member swap and the *)
(* three free swap overloads, range access, the native and decayed types,  *)
(* the decayed value and to_array.  A call the compiler rejects is an      *)
(* action that records ok = FALSE and changes nothing else.                *)
(*                                                                         *)
(* Every object value is a tuple of naturals (its representation): an int  *)
(* is <<n>>, an int[N] is <<e1, ..., eN>>, a Point is <<x, y>>, a function *)
(* or a pointer to it is <<address>>.                                      *)
(***************************************************************************)
EXTENDS Integers, Sequences, FiniteSets, TLC

MaxVal == 1          \* int values range over 0..MaxVal
ArrLen == 2          \* extent N of the program's built-in arrays

VARIABLES
    mem,     \* the calling program's objects: name -> value
    ad,      \* the program's two uni_auto variables, a and b
    last,    \* the last operation: its name, whether it compiled, its result
    coll     \* the std::array the program made with to_array (<<>>: none yet)

vars == <<mem, ad, last, coll>>

(***************************************************************************)
(* Types.  A type is its base, its array extent (0: not an array), whether *)
(* it is const (for an array: whether its elements are) and whether it is  *)
(* an lvalue reference.                                                    *)
(***************************************************************************)
Ty(b, n, c, r) == [base |-> b, ext |-> n, const |-> c, ref |-> r]

\* The bases: int, char (a character type), volatile int (the base carries
\* the volatile qualifier), the classes Point, Th and string_view, the
\* function type fn = int(int), and the pointers pfn = int(*)(int),
\* const char* and int(*)[N].
is_function_v(T) == T.base = "fn" /\ T.ext = 0 /\ ~T.ref
is_pointer_v(T) == T.base \in {"pfn", "const char*", "int(*)[N]"} /\ T.ext = 0 /\ ~T.ref
is_class_v(T) == T.base \in {"Point", "Th", "string_view"} /\ T.ext = 0 /\ ~T.ref
is_array_v(T) == T.ext > 0 /\ ~T.ref
is_scalar_v(T) ==
    /\ T.base \in {"int", "char", "volatile int", "pfn", "const char*", "int(*)[N]"}
    /\ T.ext = 0 /\ ~T.ref
is_const_v(T) == T.const /\ ~T.ref
is_volatile_v(T) == T.base = "volatile int" /\ ~T.ref
\* Th has a user-provided copy assignment
is_trivially_copyable_v(T) == T.base \notin {"Th", "fn"} /\ ~T.ref
\* uninttp_internals::is_string_view<T>
is_string_view(T) == T.base = "string_view" /\ T.ext = 0 /\ ~T.const /\ ~T.ref

remove_reference_t(T) == [T EXCEPT !.ref = FALSE]
remove_const_t(T) == IF T.ref THEN T ELSE [T EXCEPT !.const = FALSE]
remove_volatile_t(T) == IF is_volatile_v(T) THEN [T EXCEPT !.base = "int"] ELSE T
remove_pointer_t(T) ==
    IF ~is_pointer_v(T) THEN T
    ELSE CASE T.base = "pfn"         -> [base |-> "fn", ext |-> 0, const |-> FALSE, ref |-> FALSE]
           [] T.base = "const char*" -> [base |-> "char", ext |-> 0, const |-> TRUE, ref |-> FALSE]
           [] T.base = "int(*)[N]"   -> [base |-> "int", ext |-> ArrLen, const |-> FALSE, ref |-> FALSE]
\* const applied to a function type is ignored
add_const_t(T) == IF T.ref \/ T.base = "fn" THEN T ELSE [T EXCEPT !.const = TRUE]
add_lvalue_reference_t(T) == [T EXCEPT !.ref = TRUE]
\* a pointer to T: its base names the pointee and the pointee's const
add_pointer_t(T) ==
    IF T.base = "fn" THEN [base |-> "pfn", ext |-> 0, const |-> FALSE, ref |-> FALSE]
    ELSE [base |-> (IF T.const THEN "const " ELSE "") \o T.base \o "*",
          ext |-> 0, const |-> FALSE, ref |-> FALSE]
\* the element type of an array type
remove_extent_t(T) == [T EXCEPT !.ext = 0]
\* std::decay_t: the reference goes, then an array becomes a pointer to its
\* element, a function a pointer to it, anything else loses its const and
\* volatile
decay_t(T) ==
    LET U == remove_reference_t(T)
    IN  IF is_array_v(U) THEN add_pointer_t(remove_extent_t(U))
        ELSE IF is_function_v(U) THEN add_pointer_t(U)
        ELSE remove_volatile_t(remove_const_t(U))

(***************************************************************************)
(* The calling program: its objects, their declared types, initial values. *)
(***************************************************************************)
Locs == {"x", "y", "cx", "arr", "carr", "p", "cp", "fn"}

\* two objects of a class Th whose copy assignment and += can throw
ThLocs == {"t", "u"}

\* const objects of the other shapes deduction tells apart: a const Th, a
\* const volatile int, a const string_view, a const char* const, a const char
\* and an int (*const)[N]
ShapeLocs == {"ct", "cv", "sv", "cs", "cc", "pa"}

AllLocs == Locs \cup ThLocs \cup ShapeLocs

DeclType(l) ==
    CASE l \in {"x", "y"} -> Ty("int", 0, FALSE, FALSE)
      [] l = "cx"         -> Ty("int", 0, TRUE, FALSE)
      [] l = "arr"        -> Ty("int", ArrLen, FALSE, FALSE)
      [] l = "carr"       -> Ty("int", ArrLen, TRUE, FALSE)
      [] l = "p"          -> Ty("Point", 0, FALSE, FALSE)
      [] l = "cp"         -> Ty("Point", 0, TRUE, FALSE)
      [] l = "fn"         -> Ty("fn", 0, FALSE, FALSE)
      [] l \in ThLocs     -> Ty("Th", 0, FALSE, FALSE)
      [] l = "ct"         -> Ty("Th", 0, TRUE, FALSE)
      [] l = "cv"         -> Ty("volatile int", 0, TRUE, FALSE)
      [] l = "sv"         -> Ty("string_view", 0, TRUE, FALSE)
      [] l = "cs"         -> Ty("const char*", 0, TRUE, FALSE)
      [] l = "cc"         -> Ty("char", 0, TRUE, FALSE)
      [] l = "pa"         -> Ty("int(*)[N]", 0, TRUE, FALSE)

\* the address of the function fn, as a value
FnAddr == <<1>>

InitMem ==
    [l \in AllLocs |->
        CASE l = "x"    -> <<0>>
          [] l = "y"    -> <<MaxVal>>
          [] l = "cx"   -> <<MaxVal>>
          [] l = "arr"  -> [i \in 1..ArrLen |-> i]
          [] l = "carr" -> [i \in 1..ArrLen |-> ArrLen + 1 - i]
          [] l = "p"    -> <<3, 4>>
          [] l = "cp"   -> <<4, 3>>
          [] l = "fn"   -> FnAddr
          [] l = "t"    -> <<MaxVal>>
          [] l = "u"    -> <<0>>
          [] l = "ct"   -> <<MaxVal>>
          [] l = "cv"   -> <<MaxVal>>
          [] l = "sv"   -> <<9, 1>>       \* the characters' address, the length
          [] l = "cs"   -> <<9>>
          [] l = "cc"   -> <<1>>
          [] l = "pa"   -> <<5>>]         \* &arr

(***************************************************************************)
(* Expressions.  An lvalue names an object of the program (loc) or the     *)
(* storage of a uni_auto object (own); a prvalue carries its value.        *)
(***************************************************************************)
LvalueOf(l) == [cat |-> "lvalue", ty |-> DeclType(l), loc |-> l, own |-> "none", val |-> <<>>]
OwnLvalue(T, i) == [cat |-> "lvalue", ty |-> T, loc |-> "none", own |-> i, val |-> <<>>]
Prvalue(T, v) == [cat |-> "prvalue", ty |-> T, loc |-> "none", own |-> "none", val |-> v]

\* the value an expression denotes in state s = [mem, ad]
Read(s, e) ==
    IF e.cat = "prvalue" THEN e.val
    ELSE IF e.own # "none" THEN s.ad[e.own].value
    ELSE s.mem[e.loc]

\* the state after v is assigned through the lvalue e
Assign(s, e, v) ==
    IF e.own # "none"
    THEN [mem |-> s.mem, ad |-> [s.ad EXCEPT ![e.own].value = v]]
    ELSE [mem |-> [s.mem EXCEPT ![e.loc] = v], ad |-> s.ad]

\* addresses: of the program's objects, and of the storage of adapter i
AddrOf(l) ==
    CASE l = "fn" -> 1 [] l = "x" -> 2 [] l = "y" -> 3 [] l = "cx" -> 4
      [] l = "arr" -> 5 [] l = "carr" -> 6 [] l = "p" -> 7 [] l = "cp" -> 8
      [] l = "t" -> 13 [] l = "u" -> 14 [] l = "ct" -> 15 [] l = "cv" -> 16
      [] l = "sv" -> 17 [] l = "cs" -> 18 [] l = "cc" -> 19 [] l = "pa" -> 20
AddrOfOwn(i) == IF i = "a" THEN 11 ELSE 12

\* what the program can hand to a constructor
Exprs ==
    {LvalueOf(l) : l \in Locs}
    \cup {Prvalue(Ty("int", 0, FALSE, FALSE), <<v>>) : v \in 0..MaxVal}
    \cup {Prvalue(Ty("Point", 0, FALSE, FALSE), <<3, 4>>)}
    \cup {Prvalue(Ty("pfn", 0, FALSE, FALSE), FnAddr)}

\* the const lvalues of the other shapes
ShapeExprs == {LvalueOf(l) : l \in ShapeLocs}

(***************************************************************************)
(* Class template argument deduction: the five deduction guides.           *)
(***************************************************************************)
Guides == {"G1", "G2", "G3", "G4", "G5"}

\* mutant: the requires-clause does not admit class types
guide_by_value_constraint_no_class(T) ==
    /\ remove_volatile_t(remove_pointer_t(T)) # Ty("char", 0, TRUE, FALSE)
    /\ ~is_volatile_v(T)
    /\ ~is_string_view(T)
    /\ is_trivially_copyable_v(T)
    /\ \/ is_scalar_v(remove_pointer_t(T))
       \/ is_function_v(remove_pointer_t(T))

\* the requires-clause of the guide uni_auto(const T&) -> uni_auto<const T>;
\* char stands for each of the seven character types it names
guide_by_value_constraint(T) ==
    /\ remove_volatile_t(remove_pointer_t(T)) # Ty("char", 0, TRUE, FALSE)
    /\ ~is_volatile_v(T)
    /\ ~is_string_view(T)
    /\ is_trivially_copyable_v(T)
    /\ \/ is_scalar_v(remove_pointer_t(T))
       \/ is_class_v(remove_pointer_t(T))
       \/ is_function_v(remove_pointer_t(T))

guide_viable(g, e) ==
    CASE g = "G1" -> e.ty.ext > 0
      [] g = "G2" -> TRUE
      [] g = "G3" -> e.cat = "lvalue" /\ ~e.ty.const
      [] g = "G4" -> guide_by_value_constraint(remove_const_t(e.ty))
      [] g = "G5" -> TRUE

\* mutant: the constrained guide for const T& also yields a reference
guide_result_by_reference(g, e) ==
    CASE g = "G1" -> Ty(e.ty.base, e.ty.ext, TRUE, FALSE)
      [] g = "G2" -> IF e.cat = "lvalue" THEN add_lvalue_reference_t(e.ty) ELSE e.ty
      [] g = "G3" -> add_lvalue_reference_t(e.ty)
      [] g \in {"G4", "G5"} -> add_lvalue_reference_t(add_const_t(remove_const_t(e.ty)))

guide_result(g, e) ==
    CASE g = "G1" -> Ty(e.ty.base, e.ty.ext, TRUE, FALSE)
      [] g = "G2" -> IF e.cat = "lvalue" THEN add_lvalue_reference_t(e.ty) ELSE e.ty
      [] g = "G3" -> add_lvalue_reference_t(e.ty)
      [] g = "G4" -> add_const_t(remove_const_t(e.ty))
      [] g = "G5" -> add_lvalue_reference_t(add_const_t(remove_const_t(e.ty)))

\* the guide's parameter is a reference to const and the argument is not const
guide_adds_const(g, e) == g \in {"G1", "G4", "G5"} /\ ~e.ty.const /\ e.ty.base # "fn"

\* mutant: a qualification added by the reference binding is not ranked
guide_better_conversion_unranked(g, h, e) ==
    e.cat = "prvalue" /\ g = "G2" /\ h # "G2"

\* g's implicit conversion sequence is better than h's
guide_better_conversion(g, h, e) ==
    IF e.cat = "prvalue"
    THEN g = "G2" /\ h # "G2"                          \* rvalue reference binds an rvalue
    ELSE ~guide_adds_const(g, e) /\ guide_adds_const(h, e)

\* partial ordering of the guides' parameters: const T(&)[N] before const T&
\* before T& before T&&
guide_more_specialized(g, h) ==
    \/ g = "G1" /\ h \in {"G2", "G3", "G4", "G5"}
    \/ g \in {"G4", "G5"} /\ h \in {"G2", "G3"}
    \/ g = "G3" /\ h = "G2"

\* mutant: constraints do not order the guides
guide_unconstrained(g, h) == FALSE

\* same parameter list, and g carries a requires-clause
guide_more_constrained(g, h) == g = "G4" /\ h = "G5"

guide_better(g, h, e) ==
    \/ guide_better_conversion(g, h, e)
    \/ /\ ~guide_better_conversion(h, g, e)
       /\ \/ guide_more_specialized(g, h)
          \/ ~guide_more_specialized(h, g) /\ guide_more_constrained(g, h)

guide_best(e) ==
    LET viable == {g \in Guides : guide_viable(g, e)}
    IN  {g \in viable : \A h \in viable \ {g} : guide_better(g, h, e)}

\* the template arguments deduction can give for uni_auto(e)
deduce(e) == {guide_result(g, e) : g \in guide_best(e)}

(***************************************************************************)
(* The four specializations of uni_auto<T>.                                *)
(***************************************************************************)
specialization(T) ==
    IF T.ext > 0 /\ T.const /\ ~T.ref THEN "array"
    ELSE IF T.ref THEN "ref"
    ELSE IF ~is_class_v(T) THEN "value"
    ELSE "class"

\* the storage category of the specialization uni_auto<T>
category(T) ==
    CASE specialization(T) = "array" -> "Array"
      [] specialization(T) = "ref" -> "MutableRef"
      [] specialization(T) = "value" -> "Scalar"
      [] specialization(T) = "class" -> "ClassInstance"

Categories == <<"Array", "MutableRef", "Scalar", "ClassInstance">>

\* the categories deduction can select for uni_auto(e): none when no guide or
\* no single best guide exists (the declaration is rejected)
classify(e) == {category(T) : T \in deduce(e)}

\* the member alias `type`
type(T) ==
    IF specialization(T) = "array" THEN add_lvalue_reference_t(T) ELSE T

\* uni_auto_t<Value>
uni_auto_t(T) == remove_const_t(type(T))

\* mutant: the reference is removed and nothing else
uni_auto_simplify_t_no_decay(T) == remove_reference_t(type(T))

\* uni_auto_simplify_t<Value>
uni_auto_simplify_t(T) == decay_t(type(T))

\* the constructor's parameter accepts the argument e
ctor_accepts(T, e) ==
    CASE specialization(T) = "array" ->
            e.cat = "lvalue" /\ e.ty.base = T.base /\ e.ty.ext = T.ext
      [] specialization(T) = "ref" ->
            /\ e.cat = "lvalue"
            /\ e.ty.base = T.base /\ e.ty.ext = T.ext
            /\ e.ty.const => T.const
      [] specialization(T) = "value" ->
            /\ T.ext = 0 /\ e.ty.ext = 0
            /\ \/ e.ty.base = T.base
               \/ T.base = "pfn" /\ e.ty.base = "fn"    \* function-to-pointer
            /\ T.base # "fn"
      [] specialization(T) = "class" ->
            e.ty.base = T.base /\ e.ty.ext = 0

\* std::make_index_sequence<N>: the pack Indices = 0, ..., N-1
make_index_sequence(n) == [k \in 1..n |-> k - 1]

\* the copies the initialiser value{ v[Indices]... } performs, in order: one
\* per index of the pack, each of the element at that index
element_copies(v, n) ==
    [k \in 1..n |-> [index |-> make_index_sequence(n)[k],
                     val |-> v[make_index_sequence(n)[k] + 1]]]

\* mutant: the pack is one index short, the last element is value-initialised
copy_elements_short(v, n) == [i \in 1..n |-> IF i < n THEN v[i] ELSE 0]

\* mutant: every element initialised from v[0]
copy_elements_first(v, n) == [i \in 1..n |-> v[1]]

\* the element-wise copy value{ v[Indices]... } of the array constructor
copy_elements(v, n) == [i \in 1..n |-> v[i]]

\* mutant: the array specialization declares `type value` (a reference)
uni_auto_aliasing(T, e, s) ==
    CASE specialization(T) = "array" ->
            [T |-> T, bound |-> e.loc, value |-> <<>>]
      [] specialization(T) = "ref" ->
            [T |-> T, bound |-> e.loc, value |-> <<>>]
      [] specialization(T) = "value" ->
            [T |-> T, bound |-> "none", value |-> Read(s, e)]
      [] specialization(T) = "class" ->
            [T |-> T, bound |-> "none", value |-> Read(s, e)]

\* the object a constructor builds: its template argument, the object its
\* reference member is bound to (ref specialization) or its own data (others)
uni_auto(T, e, s) ==
    CASE specialization(T) = "array" ->
            [T |-> T, bound |-> "none", value |-> copy_elements(Read(s, e), T.ext)]
      [] specialization(T) = "ref" ->
            [T |-> T, bound |-> e.loc, value |-> <<>>]
      [] specialization(T) = "value" ->
            [T |-> T, bound |-> "none", value |-> Read(s, e)]
      [] specialization(T) = "class" ->
            [T |-> T, bound |-> "none", value |-> Read(s, e)]

\* the data member `value` of adapter i, as an expression: the object its
\* reference is bound to, or the adapter's own storage (const in a const
\* member function)
value(s, i) ==
    LET a == s.ad[i]
    IN  IF a.bound # "none"
        THEN [cat |-> "lvalue", ty |-> remove_reference_t(a.T),
              loc |-> a.bound, own |-> "none", val |-> <<>>]
        ELSE OwnLvalue(add_const_t(remove_reference_t(a.T)), i)

\* mutant: the value specialization converts to a reference to its storage
operator_type_reference(s, i) ==
    LET a == s.ad[i]
    IN  CASE specialization(a.T) = "array" -> value(s, i)
          [] specialization(a.T) = "ref" -> value(s, i)
          [] specialization(a.T) = "value" -> OwnLvalue(a.T, i)
          [] specialization(a.T) = "class" -> OwnLvalue(add_const_t(a.T), i)

\* the conversion function of adapter i: the expression it returns
operator_type(s, i) ==
    LET a == s.ad[i]
    IN  CASE specialization(a.T) = "array" -> value(s, i)
          [] specialization(a.T) = "ref" -> value(s, i)
          [] specialization(a.T) = "value" ->
                Prvalue(remove_const_t(a.T), Read(s, value(s, i)))
          [] specialization(a.T) = "class" ->
                OwnLvalue(add_const_t(a.T), i)

\* `a.operator typename uni_auto<T>::type()` names a member of uni_auto<T>:
\* the class specialization declares `operator const type&`, not `operator type`
names_operator_type(T) == specialization(T) # "class"

\* the specializations a program can name explicitly to own a copy of an lvalue
OwningArgs ==
    {Ty("int", 0, FALSE, FALSE), Ty("int", ArrLen, TRUE, FALSE), Ty("Point", 0, FALSE, FALSE)}

State == [mem |-> mem, ad |-> ad]

NoResult == <<>>

\* the outcome of a call: whether it compiled, the state after it, its result,
\* and how it ended: normally ("none"), by an exception that reaches the
\* caller, or in std::terminate
Done(m, a, r) == [ok |-> TRUE, mem |-> m, ad |-> a, res |-> r, exc |-> "none"]
Rejected(s) == [ok |-> FALSE, mem |-> s.mem, ad |-> s.ad, res |-> NoResult, exc |-> "none"]
Thrown(s) == [ok |-> TRUE, mem |-> s.mem, ad |-> s.ad, res |-> NoResult, exc |-> "exception"]

\* a call made in the body of a function declared noexcept: an exception that
\* leaves the body ends the program in std::terminate
noexcept(r) == IF r.exc = "exception" THEN [r EXCEPT !.exc = "terminate"] ELSE r

\* Th::operator=(const Th& o) throws when o is empty (0), before it changes *this
assign_throws(e, v) == e.ty.base = "Th" /\ v = <<0>>

\* Th::operator+=(int k) throws when k is 0, before it changes *this
plus_assign_throws(e, k) == e.ty.base = "Th" /\ k = 0

(***************************************************************************)
(* Forwarded operators (adapter on the left, plain value on the right).    *)
(***************************************************************************)

\* the built-in e + k is well-formed: int + int, or array-to-pointer + int
builtin_plus_valid(e) == e.ty.base = "int"

\* e += k is well-formed: a modifiable int lvalue (built-in), or a non-const
\* Th lvalue (Th::operator+=)
builtin_plus_assign_valid(e) ==
    e.cat = "lvalue" /\ e.ty.base \in {"int", "Th"} /\ e.ty.ext = 0 /\ ~e.ty.const

\* e += k on the plain expression e
plus_assign(s, e, k) ==
    IF ~builtin_plus_assign_valid(e) THEN Rejected(s)
    ELSE IF plus_assign_throws(e, k) THEN Thrown(s)
    ELSE LET v == <<Read(s, e)[1] + k>>
             t == Assign(s, e, v)
         IN  Done(t.mem, t.ad, v)

\* mutant: + forwarded as +=
operator_plus_compound(s, i, k) ==
    LET e == operator_type(s, i)
    IN  IF ~(names_operator_type(s.ad[i].T) /\ builtin_plus_valid(e)) THEN Rejected(s)
        ELSE IF e.ty.ext > 0
             THEN Done(s.mem, s.ad,
                       <<IF e.own # "none" THEN AddrOfOwn(e.own) ELSE AddrOf(e.loc), k>>)
             ELSE IF e.cat = "lvalue" /\ ~e.ty.const
                  THEN Done(Assign(s, e, <<Read(s, e)[1] + k>>).mem, s.ad, <<Read(s, e)[1] + k>>)
                  ELSE Done(s.mem, s.ad, <<Read(s, e)[1] + k>>)

\* operator+(const uni_auto<T>& a, U&& b): a.operator type() + b
operator_plus(s, i, k) ==
    LET e == operator_type(s, i)
    IN  IF ~(names_operator_type(s.ad[i].T) /\ builtin_plus_valid(e)) THEN Rejected(s)
        ELSE IF e.ty.ext > 0
             THEN Done(s.mem, s.ad,
                       <<IF e.own # "none" THEN AddrOfOwn(e.own) ELSE AddrOf(e.loc), k>>)
             ELSE Done(s.mem, s.ad, <<Read(s, e)[1] + k>>)

\* mutant: += applied to a copy of the converted value
operator_plus_assign_on_copy(s, i, k) ==
    LET e == operator_type(s, i)
    IN  IF ~(names_operator_type(s.ad[i].T) /\ builtin_plus_assign_valid(e)) THEN Rejected(s)
        ELSE Done(s.mem, s.ad, <<Read(s, e)[1] + k>>)

\* operator+=(const uni_auto<T>& a, U&& b): a.operator type() += b
operator_plus_assign(s, i, k) ==
    LET e == operator_type(s, i)
    IN  IF ~names_operator_type(s.ad[i].T) THEN Rejected(s)
        ELSE plus_assign(s, e, k)

\* the built-in ++e is well-formed: a modifiable int lvalue
builtin_pre_inc_valid(e) ==
    e.cat = "lvalue" /\ e.ty.base = "int" /\ e.ty.ext = 0 /\ ~e.ty.const

\* mutant: the operand is incremented in the requires-clause and in the body
operator_pre_inc_twice(s, i) ==
    LET e == operator_type(s, i)
    IN  IF ~(names_operator_type(s.ad[i].T) /\ builtin_pre_inc_valid(e)) THEN Rejected(s)
        ELSE LET v == <<Read(s, e)[1] + 2>>
                 t == Assign(s, e, v)
             IN  Done(t.mem, t.ad, v)

\* operator++(const uni_auto<T>& a): ++a.operator type()
operator_pre_inc(s, i) ==
    LET e == operator_type(s, i)
    IN  IF ~(names_operator_type(s.ad[i].T) /\ builtin_pre_inc_valid(e)) THEN Rejected(s)
        ELSE LET v == <<Read(s, e)[1] + 1>>
                 t == Assign(s, e, v)
             IN  Done(t.mem, t.ad, v)

\* operator--(const uni_auto<T>& a): --a.operator type()
operator_pre_dec(s, i) ==
    LET e == operator_type(s, i)
    IN  IF ~(names_operator_type(s.ad[i].T) /\ builtin_pre_inc_valid(e)) THEN Rejected(s)
        ELSE LET v == <<Read(s, e)[1] - 1>>
                 t == Assign(s, e, v)
             IN  Done(t.mem, t.ad, v)

\* mutant: the postfix form forwarded as the prefix form
operator_post_inc_as_prefix(s, i) ==
    LET e == operator_type(s, i)
    IN  IF ~(names_operator_type(s.ad[i].T) /\ builtin_pre_inc_valid(e)) THEN Rejected(s)
        ELSE LET v == <<Read(s, e)[1] + 1>>
                 t == Assign(s, e, v)
             IN  Done(t.mem, t.ad, v)

\* mutant: the operator is applied to the member value, not to what the
\* conversion function returns
operator_post_inc_storage(s, i) ==
    LET e == IF s.ad[i].bound # "none" THEN LvalueOf(s.ad[i].bound) ELSE OwnLvalue(s.ad[i].T, i)
    IN  IF ~builtin_pre_inc_valid(e) THEN Rejected(s)
        ELSE LET t == Assign(s, e, <<Read(s, e)[1] + 1>>)
             IN  Done(t.mem, t.ad, Read(s, e))

\* operator++(const uni_auto<T>& a, int): a.operator type()++
operator_post_inc(s, i) ==
    LET e == operator_type(s, i)
    IN  IF ~(names_operator_type(s.ad[i].T) /\ builtin_pre_inc_valid(e)) THEN Rejected(s)
        ELSE LET t == Assign(s, e, <<Read(s, e)[1] + 1>>)
             IN  Done(t.mem, t.ad, Read(s, e))

\* operator--(const uni_auto<T>& a, int): a.operator type()--
operator_post_dec(s, i) ==
    LET e == operator_type(s, i)
    IN  IF ~(names_operator_type(s.ad[i].T) /\ builtin_pre_inc_valid(e)) THEN Rejected(s)
        ELSE LET t == Assign(s, e, <<Read(s, e)[1] - 1>>)
             IN  Done(t.mem, t.ad, Read(s, e))

\* `value = b` is well-formed for the prvalue b
builtin_assign_valid(v, b) ==
    /\ v.cat = "lvalue" /\ v.ty.ext = 0 /\ ~v.ty.const
    /\ v.ty.base \in {"int", "Point", "Th"}
    /\ b.ty.base = v.ty.base /\ b.ty.ext = 0

\* mutant: the value is assigned to a copy of the referenced object
operator_assign_on_copy(s, i, ci, b) ==
    IF specialization(s.ad[i].T) = "ref" /\ builtin_assign_valid(value(s, i), b)
    THEN Done(s.mem, s.ad, Read(s, b))
    ELSE Rejected(s)

\* i = b for a prvalue b, the adapter object i being const (ci) or not.
\* uni_auto<T&>::operator=(U&& b) const: value = b, which yields the object
\* referred to. The other specializations declare no operator=: the implicit
\* copy assignment takes uni_auto(b), unless the object or its member is
\* const (then it is deleted or not viable).
operator_assign(s, i, ci, b) ==
    LET T == s.ad[i].T
        v == value(s, i)
    IN  IF specialization(T) = "ref"
        THEN IF ~builtin_assign_valid(v, b) THEN Rejected(s)
             ELSE IF assign_throws(v, Read(s, b)) THEN Thrown(s)
             ELSE LET t == Assign(s, v, Read(s, b))
                  IN  Done(t.mem, t.ad, Read(t, v))
        ELSE IF /\ ~ci /\ ctor_accepts(T, b)
                /\ specialization(T) # "array"
                /\ specialization(T) = "value" => ~T.const
             THEN Done(s.mem, [s.ad EXCEPT ![i] = uni_auto(T, b, s)], NoResult)
             ELSE Rejected(s)

\* an operand of && or ||: the adapter i, or (i = "none") a plain int k
Operand(i, k) == [ad |-> i, val |-> k]

\* the operand converts to bool: any wrapped value that is not of class type
operand_valid(s, X) ==
    \/ X.ad = "none"
    \/ /\ names_operator_type(s.ad[X.ad].T)
       /\ operator_type(s, X.ad).ty.base \notin {"Point", "Th", "string_view"}

\* the operand's value as a bool: an array or a function converts to a
\* pointer that is not null
truth(s, X) ==
    IF X.ad = "none" THEN X.val # 0
    ELSE LET e == operator_type(s, X.ad)
         IN  IF e.ty.ext > 0 \/ e.ty.base = "fn" THEN TRUE ELSE Read(s, e)[1] # 0

bool(b) == <<IF b THEN 1 ELSE 0>>

\* the evaluation of the right operand expression: it stores v in y before it
\* yields its value (a plain `y = v`, or a call that does so and returns an
\* adapter)
eval_right(s, v) == Assign(s, LvalueOf("y"), <<v>>)

\* the built-in && and || on the operands' values: the left operand first,
\* the right operand expression only if the left does not decide
builtin_logical(op, s, L, R, v) ==
    IF ~(operand_valid(s, L) /\ operand_valid(s, R)) THEN Rejected(s)
    ELSE LET l == truth(s, L)
         IN  IF (op = "and" /\ ~l) \/ (op = "or" /\ l) THEN Done(s.mem, s.ad, bool(l))
             ELSE LET t == eval_right(s, v)
                  IN  Done(t.mem, t.ad, bool(truth(t, R)))

\* operator&& and operator|| with an adapter as an operand (adapter with
\* adapter, plain with adapter, adapter with plain): a function call, so both
\* operand expressions are evaluated before the body converts the adapters
\* and applies the built-in operator to the values
operator_logical(op, s, L, R, v) ==
    IF ~(operand_valid(s, L) /\ operand_valid(s, R)) THEN Rejected(s)
    ELSE LET t == eval_right(s, v)
             l == truth(t, L)
             r == truth(t, R)
         IN  Done(t.mem, t.ad, bool(IF op = "and" THEN l /\ r ELSE l \/ r))

\* the expression an operand of a forwarded binary operator stands for in the
\* body: a.operator type() for an adapter, std::forward<U>(b) for a plain int
operand_expr(s, X) ==
    IF X.ad = "none" THEN Prvalue(Ty("int", 0, FALSE, FALSE), <<X.val>>)
    ELSE operator_type(s, X.ad)

\* l + r and l - r are well-formed: both operands are ints (the program
\* does no pointer arithmetic with these operators)
builtin_arith_valid(l, r) ==
    /\ l.ty.base = "int" /\ l.ty.ext = 0
    /\ r.ty.base = "int" /\ r.ty.ext = 0

\* the built-in + and - on ints
builtin_arith(op, m, n) == IF op = "add" THEN m + n ELSE m - n

\* the overload a call with these operands selects: adapter with adapter,
\* plain with adapter, adapter with plain
arrangement(L, R) ==
    IF L.ad # "none" /\ R.ad # "none" THEN "AA"
    ELSE IF R.ad # "none" THEN "PA" ELSE "AP"

\* mutant: the overload taking the plain value on the left applies the
\* operator with the adapter's value on the left
operator_arith_flipped(op, s, L, R) ==
    LET l == operand_expr(s, L)
        r == operand_expr(s, R)
    IN  IF ~(/\ L.ad # "none" => names_operator_type(s.ad[L.ad].T)
             /\ R.ad # "none" => names_operator_type(s.ad[R.ad].T)
             /\ builtin_arith_valid(l, r))
        THEN Rejected(s)
        ELSE IF arrangement(L, R) = "PA"
             THEN Done(s.mem, s.ad, <<builtin_arith(op, Read(s, r)[1], Read(s, l)[1])>>)
             ELSE Done(s.mem, s.ad, <<builtin_arith(op, Read(s, l)[1], Read(s, r)[1])>>)

\* operator+ and operator- in their three arrangements: each returns the
\* built-in operator applied to its first operand's expression and its second
\* operand's expression, in this order
operator_arith(op, s, L, R) ==
    LET l == operand_expr(s, L)
        r == operand_expr(s, R)
    IN  IF ~(/\ L.ad # "none" => names_operator_type(s.ad[L.ad].T)
             /\ R.ad # "none" => names_operator_type(s.ad[R.ad].T)
             /\ builtin_arith_valid(l, r))
        THEN Rejected(s)
        ELSE Done(s.mem, s.ad, <<builtin_arith(op, Read(s, l)[1], Read(s, r)[1])>>)

\* e(k) is well-formed: a function, or a pointer to one
builtin_call_valid(e) == e.ty.base \in {"fn", "pfn"} /\ e.ty.ext = 0

\* the program's function fn
fn_body(k) == <<k + 1>>

\* mutant: operator() without its requires-clause
operator_call_unconstrained(s, i, k) ==
    CASE specialization(s.ad[i].T) = "ref" -> Done(s.mem, s.ad, fn_body(k))
      [] specialization(s.ad[i].T) = "value" ->
            IF builtin_call_valid(operator_type(s, i))
            THEN Done(s.mem, s.ad, fn_body(k)) ELSE Rejected(s)
      [] specialization(s.ad[i].T) \in {"array", "class"} -> Rejected(s)

\* i(k): uni_auto<T&>::operator()(Args&&...) calls value(args...); on
\* uni_auto<T> (non-class) the call goes through the conversion to a pointer
\* to function; the other specializations declare no call operator (and
\* Point has none to inherit)
operator_call(s, i, k) ==
    CASE specialization(s.ad[i].T) = "ref" ->
            IF builtin_call_valid(value(s, i))
            THEN Done(s.mem, s.ad, fn_body(k)) ELSE Rejected(s)
      [] specialization(s.ad[i].T) = "value" ->
            IF builtin_call_valid(operator_type(s, i))
            THEN Done(s.mem, s.ad, fn_body(k)) ELSE Rejected(s)
      [] specialization(s.ad[i].T) \in {"array", "class"} -> Rejected(s)

\* the value adapter i wraps, as the program would name it without the
\* adapter: the object a reference adapter is bound to, or a variable of type
\* T holding the adapter's data
wrapped(s, i) ==
    IF s.ad[i].bound # "none"
    THEN LvalueOf(s.ad[i].bound)
    ELSE OwnLvalue(s.ad[i].T, i)

(***************************************************************************)
(* swap                                                                    *)
(***************************************************************************)

\* mutant: no check that the two types agree
std_swap_valid_untyped(ea, eb) ==
    /\ ea.cat = "lvalue" /\ eb.cat = "lvalue"
    /\ ~ea.ty.const /\ ~eb.ty.const
    /\ ea.ty.base # "fn"

\* std::swap(T&, T&) / std::swap(T(&)[N], T(&)[N]) accepts the two expressions
std_swap_valid(ea, eb) ==
    /\ ea.cat = "lvalue" /\ eb.cat = "lvalue"
    /\ ea.ty = eb.ty
    /\ ~ea.ty.const
    /\ ea.ty.base # "fn"

\* mutant: a = b; b = a, without the temporary
std_swap_overwrite(s, ea, eb) ==
    IF ~std_swap_valid(ea, eb) THEN Rejected(s)
    ELSE LET s1 == Assign(s, ea, Read(s, eb))
             s2 == Assign(s1, eb, Read(s1, ea))
         IN  Done(s2.mem, s2.ad, NoResult)

\* tmp = move(a); a = move(b); b = move(tmp) (element by element for arrays);
\* an assignment that throws leaves the swap where it is
std_swap(s, ea, eb) ==
    IF ~std_swap_valid(ea, eb) THEN Rejected(s)
    ELSE LET tmp == Read(s, ea)
             s1 == Assign(s, ea, Read(s, eb))
             s2 == Assign(s1, eb, tmp)
         IN  IF assign_throws(ea, Read(s, eb)) THEN Thrown(s)
             ELSE IF assign_throws(eb, tmp) THEN Thrown(s1)
             ELSE Done(s2.mem, s2.ad, NoResult)

\* mutant: the two adapters exchange the objects they are bound to
member_swap_rebind(s, i, j) ==
    IF specialization(s.ad[i].T) = "ref" /\ s.ad[j].T = s.ad[i].T
    THEN Done(s.mem, [s.ad EXCEPT ![i].bound = s.ad[j].bound, ![j].bound = s.ad[i].bound], NoResult)
    ELSE Rejected(s)

\* uni_auto<T&>::swap(const uni_auto& other): swap(value, other.value)
member_swap(s, i, j) ==
    IF specialization(s.ad[i].T) = "ref" /\ s.ad[j].T = s.ad[i].T
    THEN noexcept(std_swap(s, value(s, i), value(s, j)))
    ELSE Rejected(s)

\* an argument of the free swap: a uni_auto object (seen as const or not), or
\* any other expression
AdapterArg(i, c) == [isad |-> TRUE, i |-> i, c |-> c, e |-> Prvalue(Ty("int", 0, FALSE, FALSE), <<>>)]
PlainArg(e) == [isad |-> FALSE, i |-> "none", c |-> e.ty.const, e |-> e]

SwapOverloads == {"O1", "O2", "O3"}

\* mutant: the overload swap(T1&, const uni_auto<T2>&) is missing
swap_viable_without_O3(s, o, A, B) ==
    CASE o = "O1" -> A.isad /\ B.isad /\ s.ad[A.i].T = s.ad[B.i].T
      [] o = "O2" -> A.isad /\ (B.isad \/ B.e.cat = "lvalue")
      [] o = "O3" -> FALSE

\* O1: swap(const uni_auto<T>&, const uni_auto<T>&)
\* O2: swap(const uni_auto<T1>&, T2&)
\* O3: swap(T1&, const uni_auto<T2>&)
swap_viable(s, o, A, B) ==
    CASE o = "O1" -> A.isad /\ B.isad /\ s.ad[A.i].T = s.ad[B.i].T
      [] o = "O2" -> A.isad /\ (B.isad \/ B.e.cat = "lvalue")
      [] o = "O3" -> B.isad /\ (A.isad \/ A.e.cat = "lvalue")

\* overload o binds argument n (1 or 2) to a reference to const although the
\* argument is not const
swap_adds_const(o, n, A, B) ==
    IF n = 1 THEN o \in {"O1", "O2"} /\ ~A.c
    ELSE o \in {"O1", "O3"} /\ ~B.c

swap_better_conversion(o, q, A, B) ==
    /\ \A n \in {1, 2} : swap_adds_const(o, n, A, B) => swap_adds_const(q, n, A, B)
    /\ \E n \in {1, 2} : ~swap_adds_const(o, n, A, B) /\ swap_adds_const(q, n, A, B)

swap_more_specialized(o, q) == o = "O1" /\ q \in {"O2", "O3"}

swap_better(o, q, A, B) ==
    \/ swap_better_conversion(o, q, A, B)
    \/ ~swap_better_conversion(q, o, A, B) /\ swap_more_specialized(o, q)

swap_best(s, A, B) ==
    LET viable == {o \in SwapOverloads : swap_viable(s, o, A, B)}
    IN  {o \in viable : \A q \in viable \ {o} : swap_better(o, q, A, B)}

\* the unqualified call swap(A, B) after `using std::swap`
RECURSIVE swap(_, _, _)
swap(s, A, B) ==
    IF ~A.isad /\ ~B.isad THEN std_swap(s, A.e, B.e)
    ELSE LET best == swap_best(s, A, B)
         IN  IF Cardinality(best) # 1 THEN Rejected(s)
             ELSE IF "O1" \in best
                  THEN IF names_operator_type(s.ad[A.i].T) /\ names_operator_type(s.ad[B.i].T)
                       THEN noexcept(swap(s, PlainArg(operator_type(s, A.i)), PlainArg(operator_type(s, B.i))))
                       ELSE Rejected(s)
             ELSE IF "O2" \in best
                  THEN IF names_operator_type(s.ad[A.i].T)
                       THEN noexcept(swap(s, PlainArg(operator_type(s, A.i)), B))
                       ELSE Rejected(s)
             ELSE IF names_operator_type(s.ad[B.i].T)
                  THEN noexcept(swap(s, A, PlainArg(operator_type(s, B.i))))
                  ELSE Rejected(s)

(***************************************************************************)
(* Range access, the decayed value, to_array.  A pointer is the array it   *)
(* points into (an lvalue) and an element offset.                          *)
(***************************************************************************)

\* mutant: the range members of uni_auto<T&> carry no requires-clause
has_range_unconstrained(T) == specialization(T) \in {"array", "ref"}

\* the requires-clause std::is_array_v<T> of the range members of uni_auto<T&>;
\* uni_auto<const T[N]> declares them unconstrained, the others not at all
has_range(T) ==
    \/ specialization(T) = "array"
    \/ specialization(T) = "ref" /\ is_array_v(remove_reference_t(T))

Ptr(e, k) == [obj |-> e, off |-> k]
ptr_add(p, k) == Ptr(p.obj, p.off + k)
deref(s, p) == Read(s, p.obj)[p.off + 1]

\* size(): N, respectively std::extent_v<T>
size(s, i) ==
    IF has_range(s.ad[i].T) THEN Done(s.mem, s.ad, <<s.ad[i].T.ext>>) ELSE Rejected(s)

std_begin(e) == Ptr(e, 0)

\* mutant: one before the end
std_end_short(e) == Ptr(e, e.ty.ext - 1)

std_end(e) == Ptr(e, e.ty.ext)

\* begin() / cbegin(), end() / cend()
begin(s, i) == std_begin(value(s, i))
end(s, i) == std_end(value(s, i))

\* std::reverse_iterator: *r is *(r.base - 1), ++r is --r.base
reverse_iterator(p) == [base |-> p]
reverse_deref(s, r) == deref(s, ptr_add(r.base, -1))
reverse_next(r) == reverse_iterator(ptr_add(r.base, -1))

\* mutant: rbegin() built from begin()
rbegin_from_begin(s, i) == reverse_iterator(std_begin(value(s, i)))

\* rbegin() / crbegin(), rend() / crend()
rbegin(s, i) == reverse_iterator(std_end(value(s, i)))
rend(s, i) == reverse_iterator(std_begin(value(s, i)))

\* for (p = b; p != e; ++p) visit *p : the elements visited, in order
RECURSIVE range_for(_, _, _)
range_for(s, b, e) ==
    IF b = e THEN <<>> ELSE <<deref(s, b)>> \o range_for(s, ptr_add(b, 1), e)

RECURSIVE reverse_for(_, _, _)
reverse_for(s, b, e) ==
    IF b = e THEN <<>> ELSE <<reverse_deref(s, b)>> \o reverse_for(s, reverse_next(b), e)

\* a range-based for over adapter i
iterate(s, i) ==
    IF has_range(s.ad[i].T)
    THEN Done(s.mem, s.ad, range_for(s, begin(s, i), end(s, i)))
    ELSE Rejected(s)

\* a loop from rbegin() to rend() over adapter i
iterate_reverse(s, i) ==
    IF has_range(s.ad[i].T)
    THEN Done(s.mem, s.ad, reverse_for(s, rbegin(s, i), rend(s, i)))
    ELSE Rejected(s)

\* data(): std::data(value)
data(s, i) == std_begin(value(s, i))

\* the address a pointer holds, and its offset from it in elements
address(p) ==
    <<IF p.obj.own # "none" THEN AddrOfOwn(p.obj.own) ELSE AddrOf(p.obj.loc), p.off>>

\* i.data() as the program calls it
call_data(s, i) ==
    IF has_range(s.ad[i].T) THEN Done(s.mem, s.ad, address(data(s, i))) ELSE Rejected(s)

\* i.empty(): std::empty(value), false (0) for an array, whose extent is not 0
empty(s, i) ==
    IF has_range(s.ad[i].T)
    THEN Done(s.mem, s.ad, <<IF value(s, i).ty.ext = 0 THEN 1 ELSE 0>>)
    ELSE Rejected(s)

\* mutant: the decayed pointer is taken one element further
decay_second(e) == IF e.ty.ext > 1 THEN Ptr(e, 1) ELSE Ptr(e, 0)

\* array-to-pointer conversion
decay(e) == Ptr(e, 0)

\* uni_auto_simplify_v<Value>: Value converted to std::decay_t<type>; a pointer
\* to the first element for an array, a copy of the value otherwise
uni_auto_simplify_v(s, i) ==
    LET e == operator_type(s, i)
    IN  IF e.ty.ext > 0
        THEN [ptr |-> TRUE, p |-> decay(e), val |-> <<>>]
        ELSE [ptr |-> FALSE, p |-> Ptr(e, 0), val |-> Read(s, e)]

\* what the program reads through the decayed value: p[0] .. p[N-1] with N the
\* extent of the wrapped array (an out-of-range p[k] is not read), or the copy
simplified(s, i) ==
    LET d == uni_auto_simplify_v(s, i)
        n == d.p.obj.ty.ext
    IN  IF d.ptr
        THEN [k \in 1..(n - d.p.off) |-> deref(s, ptr_add(d.p, k - 1))]
        ELSE d.val

\* mutant: the elements are taken in reverse order
std_to_array_reversed(v) == [k \in 1..Len(v) |-> v[Len(v) + 1 - k]]

\* std::to_array: an std::array with a copy of each element
std_to_array(v) == [k \in 1..Len(v) |-> v[k]]

\* to_array(const uni_auto<T>& a): std::to_array(a.value)
to_array(s, i) ==
    IF is_array_v(remove_reference_t(s.ad[i].T))
    THEN noexcept(Done(s.mem, s.ad, std_to_array(Read(s, value(s, i)))))
    ELSE Rejected(s)

(***************************************************************************)
(* Members of the wrapped class.  The program's class Point has the data   *)
(* members x, y and the method magnitude().                                *)
(***************************************************************************)

\* Point::magnitude() of the instance with representation v: the integer
\* square root of x*x + y*y
magnitude(v) ==
    LET n == v[1] * v[1] + v[2] * v[2]
    IN  CHOOSE r \in 0..n : r * r <= n /\ (r + 1) * (r + 1) > n

\* mutant: the class specialization does not derive from T
call_member_no_base(s, i) == Rejected(s)

\* i.magnitude(): member lookup in uni_auto<T>; only the class specialization
\* derives from T, and the call then runs on its base subobject
call_member(s, i) ==
    IF specialization(s.ad[i].T) = "class"
    THEN Done(s.mem, s.ad, <<magnitude(Read(s, OwnLvalue(add_const_t(s.ad[i].T), i)))>>)
    ELSE Rejected(s)

\* mutant: the copy of a reference adapter gets a copy of the data
copy_ctor_deep(s, i) ==
    IF specialization(s.ad[i].T) = "ref"
    THEN [T |-> s.ad[i].T, bound |-> "none", value |-> Read(s, value(s, i))]
    ELSE s.ad[i]

\* the implicit copy constructor: member-wise, a reference member is bound to
\* the same object
copy_ctor(s, i) == s.ad[i]

\* the program's uni_auto variables; b is declared after a
Slots == {"a", "b"}
Unbuilt == [T |-> Ty("none", 0, FALSE, FALSE), bound |-> "none", value |-> <<>>]
built(i) == ad[i] # Unbuilt
next_slot == IF ~built("a") THEN "a" ELSE "b"

Init ==
    /\ mem = InitMem
    /\ ad = [i \in Slots |-> Unbuilt]
    /\ last = [op |-> "init", ok |-> TRUE, arg |-> NoResult, res |-> NoResult, exc |-> "none"]
    /\ coll = <<>>

\* the state and the record of the last operation after a call with outcome r;
\* after std::terminate the program makes no further call
Applied(name, arg, r) ==
    /\ last.exc # "terminate"
    /\ mem' = r.mem
    /\ ad' = r.ad
    /\ last' = [op |-> name, ok |-> r.ok, arg |-> arg, res |-> r.res, exc |-> r.exc]
    /\ coll' = coll

(***************************************************************************)
(* Actions                                                                 *)
(***************************************************************************)

\* uni_auto(e) with the template argument deduced: uni_auto i{e}
Construct(i, e) ==
    /\ ~built(i) /\ i = next_slot
    /\ \E T \in deduce(e) :
        /\ ctor_accepts(T, e)
        /\ LET a == [ad EXCEPT ![i] = uni_auto(T, e, State)]
               s == [mem |-> mem, ad |-> a]
           IN  Applied("construct", Read(State, e), Done(mem, a, Read(s, operator_type(s, i))))

\* an owning specialization named explicitly for an lvalue: uni_auto<T> i(e)
ConstructOwning(i, e, T) ==
    /\ ~built(i) /\ i = next_slot
    /\ T \in OwningArgs /\ e.cat = "lvalue"
    /\ ctor_accepts(T, e)
    /\ LET a == [ad EXCEPT ![i] = uni_auto(T, e, State)]
           s == [mem |-> mem, ad |-> a]
       IN  Applied("construct", Read(State, e), Done(mem, a, Read(s, operator_type(s, i))))

\* the compiler deduces the specialization for uni_auto(e); the result records,
\* for each category in the order of Categories, whether deduction can select it
Deduce(e) ==
    LET r == [op |-> "deduce", ok |-> Cardinality(guide_best(e)) = 1,
              arg |-> Read(State, e),
              res |-> [k \in 1..Len(Categories) |-> IF Categories[k] \in classify(e) THEN 1 ELSE 0],
              exc |-> "none"]
    IN  /\ last # r
        /\ last' = r
        /\ UNCHANGED <<mem, ad, coll>>

\* uni_auto j = i
Copy(i, j) ==
    /\ built(i) /\ ~built(j) /\ j = next_slot
    /\ Applied("copy", NoResult, Done(mem, [ad EXCEPT ![j] = copy_ctor(State, i)], NoResult))

\* the program writes one of its own int objects
DirectWrite(l, v) ==
    /\ l \in {"x", "y"}
    /\ mem[l] # <<v>>
    /\ Applied("write", NoResult, Done([mem EXCEPT ![l] = <<v>>], ad, NoResult))

\* the program clears the last element of its own array
DirectWriteElement ==
    /\ mem["arr"][ArrLen] # 0
    /\ Applied("write", NoResult, Done([mem EXCEPT !["arr"][ArrLen] = 0], ad, NoResult))

\* the program writes the storage of an owning adapter: i.value = v for a
\* scalar, i.x = 0 for a class instance (the array's elements are const)
WriteOwn(i, v) ==
    /\ built(i)
    /\ \/ specialization(ad[i].T) = "value" /\ ad[i].T.base = "int" /\ ~ad[i].T.const
       \/ specialization(ad[i].T) = "class" /\ v = 0
    /\ ad[i].value[1] # v
    /\ Applied("write_own", NoResult, Done(mem, [ad EXCEPT ![i].value[1] = v], NoResult))

\* static_cast<type>(i): the value read through the conversion function
Native(i) ==
    /\ built(i)
    /\ Applied("native", NoResult, Done(mem, ad, Read(State, operator_type(State, i))))

\* the bases, in the order in which a type is printed
Bases ==
    <<"int", "char", "volatile int", "Point", "Th", "string_view", "fn", "pfn",
      "const char*", "int(*)[N]", "int*", "const int*">>

\* a type as the program prints it: the index of its base, its extent, and
\* whether it is const and a reference
TypeCode(T) ==
    <<CHOOSE k \in 1..Len(Bases) : Bases[k] = T.base, T.ext,
      IF T.const THEN 1 ELSE 0, IF T.ref THEN 1 ELSE 0>>

\* the program prints uni_auto_t<i> and uni_auto_simplify_t<i>
Types(i) ==
    /\ built(i)
    /\ last.op # "types"
    /\ Applied("types", NoResult,
               Done(mem, ad, TypeCode(uni_auto_t(ad[i].T)) \o TypeCode(uni_auto_simplify_t(ad[i].T))))

\* i + k
Plus(i, k) ==
    /\ built(i)
    /\ Applied("plus", <<k>>, operator_plus(State, i, k))

\* i += k
PlusAssign(i, k) ==
    /\ built(i)
    /\ LET r == operator_plus_assign(State, i, k)
       IN  r.ok /\ r.exc = "none" => r.res[1] <= MaxVal
    /\ Applied("plus_assign", <<k>>, operator_plus_assign(State, i, k))

\* i.swap(j)
MemberSwap(i, j) ==
    /\ built(i) /\ built(j)
    /\ Applied("member_swap", NoResult, member_swap(State, i, j))

\* swap(i, j), each argument seen as a const object or not
FreeSwap(i, ci, j, cj) ==
    /\ built(i) /\ built(j)
    /\ Applied("swap", NoResult, swap(State, AdapterArg(i, ci), AdapterArg(j, cj)))

\* swap(i, v) with v an object of the program
SwapWithPlain(i, l) ==
    /\ built(i)
    /\ Applied("swap_plain", NoResult, swap(State, AdapterArg(i, TRUE), PlainArg(LvalueOf(l))))

\* swap(v, i) with v an object of the program
SwapPlainWith(l, i) ==
    /\ built(i)
    /\ Applied("plain_swap", NoResult, swap(State, PlainArg(LvalueOf(l)), AdapterArg(i, TRUE)))

\* ++i
PreInc(i) ==
    /\ built(i)
    /\ operator_pre_inc(State, i).ok => Read(State, wrapped(State, i))[1] < MaxVal
    /\ Applied("pre_inc", NoResult, operator_pre_inc(State, i))

\* i = b
OperatorAssign(i, ci, b) ==
    /\ built(i)
    /\ Applied("assign", Read(State, b), operator_assign(State, i, ci, b))

\* the operand pairs with an adapter among them, for a right operand
\* expression that stores v: its value is v if it is plain
OperandPairs(v) ==
    {<<L, R>> \in ({Operand(i, 0) : i \in Slots} \cup {Operand("none", k) : k \in 0..MaxVal})
                 \X ({Operand(j, 0) : j \in Slots} \cup {Operand("none", v)}) :
        /\ L.ad # "none" \/ R.ad # "none"
        /\ L.ad # "none" => built(L.ad)
        /\ R.ad # "none" => built(R.ad)}

\* L && R
LogicalAnd(L, R, v) ==
    /\ <<L, R>> \in OperandPairs(v)
    /\ Applied("and", <<v>>, operator_logical("and", State, L, R, v))

\* L || R
LogicalOr(L, R, v) ==
    /\ <<L, R>> \in OperandPairs(v)
    /\ Applied("or", <<v>>, operator_logical("or", State, L, R, v))

\* L + R, with an adapter among the operands
Add(L, R) ==
    /\ L.ad # "none" \/ R.ad # "none"
    /\ L.ad # "none" => built(L.ad)
    /\ R.ad # "none" => built(R.ad)
    /\ Applied("add", NoResult, operator_arith("add", State, L, R))

\* L - R, with an adapter among the operands
Subtract(L, R) ==
    /\ L.ad # "none" \/ R.ad # "none"
    /\ L.ad # "none" => built(L.ad)
    /\ R.ad # "none" => built(R.ad)
    /\ Applied("sub", NoResult, operator_arith("sub", State, L, R))

\* --i
PreDec(i) ==
    /\ built(i)
    /\ operator_pre_dec(State, i).ok => Read(State, wrapped(State, i))[1] > 0
    /\ Applied("pre_dec", NoResult, operator_pre_dec(State, i))

\* i++
PostInc(i) ==
    /\ built(i)
    /\ operator_post_inc(State, i).ok => Read(State, wrapped(State, i))[1] < MaxVal
    /\ Applied("post_inc", NoResult, operator_post_inc(State, i))

\* i--
PostDec(i) ==
    /\ built(i)
    /\ operator_post_dec(State, i).ok => Read(State, wrapped(State, i))[1] > 0
    /\ Applied("post_dec", NoResult, operator_post_dec(State, i))

\* i(k)
Call(i, k) ==
    /\ built(i)
    /\ Applied("call", <<k>>, operator_call(State, i, k))

\* i.size()
Size(i) ==
    /\ built(i)
    /\ Applied("size", NoResult, size(State, i))

\* for (auto e : i)
Iterate(i) ==
    /\ built(i)
    /\ Applied("iterate", NoResult, iterate(State, i))

\* for (auto it = i.rbegin(); it != i.rend(); ++it)
IterateReverse(i) ==
    /\ built(i)
    /\ Applied("iterate_reverse", NoResult, iterate_reverse(State, i))

\* i.data()
Data(i) ==
    /\ built(i)
    /\ Applied("data", NoResult, call_data(State, i))

\* i.empty()
Empty(i) ==
    /\ built(i)
    /\ Applied("empty", NoResult, empty(State, i))

\* uni_auto_simplify_v<i>, and the elements read through it
Simplify(i) ==
    /\ built(i)
    /\ Applied("simplify", NoResult, Done(mem, ad, simplified(State, i)))

\* auto c = to_array(i)
ToArray(i) ==
    /\ built(i)
    /\ LET r == to_array(State, i)
       IN  /\ mem' = r.mem
           /\ ad' = r.ad
           /\ last' = [op |-> "to_array", ok |-> r.ok, arg |-> NoResult, res |-> r.res, exc |-> r.exc]
           /\ coll' = IF r.ok THEN r.res ELSE coll

\* the program writes an element of the std::array it made: c[k] = v
WriteColl(k, v) ==
    /\ k \in DOMAIN coll
    /\ coll[k] # v
    /\ coll' = [coll EXCEPT ![k] = v]
    /\ last' = [op |-> "write_coll", ok |-> TRUE, arg |-> NoResult, res |-> NoResult, exc |-> "none"]
    /\ UNCHANGED <<mem, ad>>

\* i.magnitude()
CallMember(i) ==
    /\ built(i)
    /\ Applied("member", NoResult, call_member(State, i))

\* the objects the program hands to swap next to an adapter
PlainVars == {"x", "y", "cx", "arr", "p"}

\* construction by deduction, reads, forwarded operators and swaps
Next ==
    \/ \E i \in Slots, e \in Exprs : Construct(i, e)
    \/ \E i, j \in Slots : Copy(i, j)
    \/ \E l \in {"x", "y"}, v \in 0..MaxVal : DirectWrite(l, v)
    \/ \E i \in Slots : Native(i)
    \/ \E i \in Slots, k \in 0..MaxVal : Plus(i, k)
    \/ \E i \in Slots, k \in 0..MaxVal : PlusAssign(i, k)
    \/ \E i, j \in Slots : MemberSwap(i, j)
    \/ \E i, j \in Slots, ci, cj \in BOOLEAN : FreeSwap(i, ci, j, cj)
    \/ \E i \in Slots, l \in PlainVars : SwapWithPlain(i, l)
    \/ \E i \in Slots, l \in PlainVars : SwapPlainWith(l, i)

Spec == Init /\ [][Next]_vars

\* owning adapters: construction, copies, and the program's writes to the
\* sources and to the adapters' own storage
OwningExprs == {e \in Exprs : \E T \in deduce(e) : specialization(T) # "ref"}

NextOwn ==
    \/ \E i \in Slots, e \in OwningExprs : Construct(i, e)
    \/ \E i \in Slots, e \in Exprs, T \in OwningArgs : ConstructOwning(i, e, T)
    \/ \E i, j \in Slots : Copy(i, j)
    \/ \E l \in {"x", "y"}, v \in 0..MaxVal : DirectWrite(l, v)
    \/ DirectWriteElement
    \/ \E i \in Slots, v \in 0..MaxVal : WriteOwn(i, v)
    \/ \E i \in Slots : Native(i)
    \/ \E i \in Slots : CallMember(i)

SpecOwn == Init /\ [][NextOwn]_vars

\* adapters of arrays (and of an int, which has no range): range access, the
\* decayed value, to_array, and the program's writes to arr and to the std::array
ViewExprs == {LvalueOf(l) : l \in {"arr", "carr", "x"}}

NextView ==
    \/ \E i \in Slots, e \in ViewExprs : Construct(i, e)
    \/ DirectWriteElement
    \/ \E i \in Slots : Size(i)
    \/ \E i \in Slots : Iterate(i)
    \/ \E i \in Slots : IterateReverse(i)
    \/ \E i \in Slots : Simplify(i)
    \/ \E i \in Slots : ToArray(i)
    \/ \E k \in {1, ArrLen}, v \in 0..MaxVal : WriteColl(k, v)

SpecView == Init /\ [][NextView]_vars

\* forwarded operators and swaps over ints, arrays, classes, functions and the
\* objects of the throwing class Th
OpsExprs ==
    {LvalueOf(l) : l \in {"x", "cx", "arr", "p", "fn", "t", "u"}}
    \cup {Prvalue(Ty("int", 0, FALSE, FALSE), <<0>>)}
    \cup {Prvalue(Ty("pfn", 0, FALSE, FALSE), FnAddr)}

NextOps ==
    \/ \E i \in Slots, e \in OpsExprs : Construct(i, e)
    \/ \E i \in Slots, k \in 0..MaxVal : Plus(i, k)
    \/ \E i \in Slots, k \in 0..MaxVal : PlusAssign(i, k)
    \/ \E i \in Slots : PreInc(i)
    \/ \E i \in Slots : PreDec(i)
    \/ \E i \in Slots : PostInc(i)
    \/ \E i \in Slots : PostDec(i)
    \/ \E i \in Slots, k \in 0..MaxVal : Call(i, k)
    \/ \E i, j \in Slots : MemberSwap(i, j)
    \/ \E i, j \in Slots : FreeSwap(i, TRUE, j, TRUE)
    \/ \E i \in Slots, l \in {"x", "t", "u"} : SwapWithPlain(i, l)

SpecOps == Init /\ [][NextOps]_vars

\* every kind of adapter and every kind of operation on it
UseExprs ==
    {LvalueOf(l) : l \in {"x", "cx", "arr", "carr", "p", "cp"}}
    \cup {Prvalue(Ty("int", 0, FALSE, FALSE), <<0>>)}

\* the values the program assigns
AssignExprs ==
    {Prvalue(Ty("int", 0, FALSE, FALSE), <<v>>) : v \in 0..MaxVal}
    \cup {Prvalue(Ty("Point", 0, FALSE, FALSE), <<1, 2>>)}

NextUse ==
    \/ \E i \in Slots, e \in UseExprs : Construct(i, e)
    \/ \E i \in Slots : Native(i)
    \/ \E i \in Slots : Size(i)
    \/ \E i \in Slots : Iterate(i)
    \/ \E i \in Slots : IterateReverse(i)
    \/ \E i \in Slots : Data(i)
    \/ \E i \in Slots : Empty(i)
    \/ \E i \in Slots : Simplify(i)
    \/ \E i \in Slots : ToArray(i)
    \/ \E i \in Slots : CallMember(i)
    \/ \E i \in Slots, k \in 0..MaxVal : Plus(i, k)
    \/ \E i \in Slots, k \in 0..MaxVal : PlusAssign(i, k)
    \/ \E i \in Slots : PreInc(i)
    \/ \E i \in Slots : PreDec(i)
    \/ \E i \in Slots : PostInc(i)
    \/ \E i \in Slots : PostDec(i)
    \/ \E i \in Slots, ci \in BOOLEAN, b \in AssignExprs : OperatorAssign(i, ci, b)
    \/ \E i, j \in Slots : MemberSwap(i, j)
    \/ \E i, j \in Slots, ci, cj \in BOOLEAN : FreeSwap(i, ci, j, cj)
    \/ \E i \in Slots, l \in {"x", "y"} : SwapWithPlain(i, l)
    \/ \E i \in Slots, l \in {"x", "y"} : SwapPlainWith(l, i)

SpecUse == Init /\ [][NextUse]_vars

\* the logical operators, over adapters of ints, an array and a class
LogicExprs ==
    {LvalueOf(l) : l \in {"x", "y", "cx", "arr", "p"}}
    \cup {Prvalue(Ty("int", 0, FALSE, FALSE), <<0>>)}

AllOperands ==
    {Operand(i, 0) : i \in Slots} \cup {Operand("none", k) : k \in 0..MaxVal}

NextLogic ==
    \/ \E i \in Slots, e \in LogicExprs : Construct(i, e)
    \/ \E L, R \in AllOperands, v \in 0..MaxVal : LogicalAnd(L, R, v)
    \/ \E L, R \in AllOperands, v \in 0..MaxVal : LogicalOr(L, R, v)

SpecLogic == Init /\ [][NextLogic]_vars

\* + and - in the three arrangements, over adapters of ints and of a class
ArithExprs ==
    {LvalueOf(l) : l \in {"x", "y", "cx", "p"}}
    \cup {Prvalue(Ty("int", 0, FALSE, FALSE), <<v>>) : v \in 0..MaxVal}

NextArith ==
    \/ \E i \in Slots, e \in ArithExprs : Construct(i, e)
    \/ \E L, R \in AllOperands : Add(L, R)
    \/ \E L, R \in AllOperands : Subtract(L, R)

SpecArith == Init /\ [][NextArith]_vars

\* classification: deduction and construction for every shape of argument
NextShape ==
    \/ \E e \in Exprs \cup ShapeExprs : Deduce(e)
    \/ \E i \in Slots, e \in Exprs \cup ShapeExprs : Construct(i, e)
    \/ \E i \in Slots : Types(i)
    \/ \E i \in Slots : Native(i)

SpecShape == Init /\ [][NextShape]_vars

(***************************************************************************)
(* Properties                                                              *)
(***************************************************************************)
IsRef(a) == a # Unbuilt /\ specialization(a.T) = "ref"
IsIntRef(a) == IsRef(a) /\ a.T = Ty("int", 0, FALSE, TRUE)
IsOwning(a) == a # Unbuilt /\ specialization(a.T) # "ref"

\* the value read through adapter i's conversion function in the state (m, a)
Holds(m, a, i) == Read([mem |-> m, ad |-> a], operator_type([mem |-> m, ad |-> a], i))

\* C1: constructing an adapter from a value v, of any category, and converting
\* it back to its native type yields a value equal to v.
C1_RoundTrip == last.op = "construct" => last.res = last.arg

\* an owning array adapter has just been built from carr, next to a class instance
C1_Witness ==
    /\ last.op = "construct"
    /\ specialization(ad["a"].T) = "class"
    /\ built("b") /\ specialization(ad["b"].T) = "array"
    /\ last.arg = mem["carr"] /\ last.res = mem["carr"]

\* C2: for a reference adapter bound to an int s, reading through the adapter
\* and reading s always agree, a += through the adapter adds to s, and a
\* direct write to s is what the adapter reads afterwards.
C2_AliasVisibility ==
    [][\A i \in Slots :
          IsIntRef(ad[i]) /\ ad[i].bound # "none" =>
            /\ ad'[i] = ad[i]
            /\ Holds(mem', ad', i) = mem'[ad[i].bound]
            /\ \A k \in 0..MaxVal :
                 last'.op = "plus_assign" /\ PlusAssign(i, k) =>
                   last'.ok /\ mem'[ad[i].bound] = <<mem[ad[i].bound][1] + k>>
            /\ \A v \in 0..MaxVal :
                 last'.op = "write" /\ DirectWrite(ad[i].bound, v) =>
                   Holds(mem', ad', i) = <<v>>]_vars

\* x has just been changed by a += 1 made through an adapter bound to x
C2_Witness ==
    /\ last.op = "plus_assign" /\ last.ok /\ last.arg = <<1>>
    /\ IsIntRef(ad["a"]) /\ ad["a"].bound = "x"
    /\ mem["x"] = <<InitMem["x"][1] + 1>>
    /\ Holds(mem, ad, "a") = mem["x"]

\* C3: with an int x bound into a reference adapter a, a + k returns x + k and
\* leaves x unchanged, and a += k sets x to x + k.
C3_PlusAndPlusAssign ==
    [][\A i \in Slots, k \in 0..MaxVal :
          IsIntRef(ad[i]) =>
            /\ last'.op = "plus" /\ Plus(i, k) =>
                 /\ last'.ok
                 /\ last'.res = <<mem[ad[i].bound][1] + k>>
                 /\ mem' = mem
            /\ last'.op = "plus_assign" /\ PlusAssign(i, k) =>
                 /\ last'.ok
                 /\ mem'[ad[i].bound] = <<mem[ad[i].bound][1] + k>>
                 /\ \A l \in Locs \ {ad[i].bound} : mem'[l] = mem[l]]_vars

\* a + MaxVal has just been evaluated with a bound to y = MaxVal
C3_Witness ==
    /\ last.op = "plus" /\ last.ok /\ last.arg = <<MaxVal>>
    /\ IsIntRef(ad["a"]) /\ ad["a"].bound = "y"
    /\ mem["y"] = <<MaxVal>>
    /\ last.res = <<MaxVal + MaxVal>>

\* C4: copying a reference adapter copies the alias and not the data: the copy
\* is bound to the same object, and a += made through either adapter is read
\* through the other and in the object.
C4_CopyAliases ==
    /\ [][\A i, j \in Slots :
            last'.op = "copy" /\ IsRef(ad[i]) /\ Copy(i, j) =>
              /\ ad'[j].bound = ad[i].bound
              /\ ad'[i] = ad[i]
              /\ mem' = mem]_vars
    /\ [][\A i, j \in Slots, k \in 0..MaxVal :
            /\ IsIntRef(ad[i]) /\ IsIntRef(ad[j])
            /\ ad[i].bound # "none" /\ ad[i].bound = ad[j].bound
            /\ last'.op = "plus_assign" /\ PlusAssign(i, k)
            => /\ Holds(mem', ad', j) = <<mem[ad[i].bound][1] + k>>
               /\ Holds(mem', ad', i) = Holds(mem', ad', j)
               /\ mem'[ad[i].bound] = Holds(mem', ad', j)]_vars

\* b has just been made as a copy of a, which is bound to x
C4_Witness ==
    /\ last.op = "copy"
    /\ IsIntRef(ad["a"]) /\ ad["a"].bound = "x"
    /\ ad["b"] = ad["a"]

\* C5: an owning adapter holds its own copy: a write to the storage of another
\* adapter (such as a copy of it), or to the object it was constructed from,
\* does not change what it holds.
C5_OwnCopy ==
    [][\A i \in Slots :
          /\ IsOwning(ad[i])
          /\ last'.op \in {"write", "write_own"}
          /\ \/ \E j \in Slots \ {i}, v \in 0..MaxVal : WriteOwn(j, v)
             \/ \E l \in {"x", "y"}, v \in 0..MaxVal : DirectWrite(l, v)
             \/ DirectWriteElement
          => Holds(mem', ad', i) = Holds(mem, ad, i)]_vars

\* a owns a copy of arr, b is a copy of a class instance; arr and b's storage
\* have both been written since
C5_Witness ==
    /\ last.op \in {"write", "write_own"}
    /\ IsOwning(ad["a"]) /\ specialization(ad["a"].T) = "array"
    /\ ad["a"].value = InitMem["arr"] /\ mem["arr"] # InitMem["arr"]
    /\ IsOwning(ad["b"]) /\ specialization(ad["b"].T) = "class"
    /\ ad["b"].value[1] = 0

C7_SwapExchangesAliases ==
    [][\A i, j \in Slots, ci, cj \in BOOLEAN :
          /\ IsRef(ad[i]) /\ IsRef(ad[j])
          /\ last'.op \in {"member_swap", "swap"} /\ last'.ok
          /\ MemberSwap(i, j) \/ FreeSwap(i, ci, j, cj)
          => ad'[i].bound = ad[j].bound /\ ad'[j].bound = ad[i].bound]_vars

\* C7, amended: a swap of two reference adapters leaves each adapter bound to
\* the object it was bound to before (the objects' contents are exchanged).
C7_SwapKeepsAliases ==
    [][\/ ad' = ad
       \/ \A i, j \in Slots, ci, cj \in BOOLEAN :
            ~ /\ IsRef(ad[i]) /\ IsRef(ad[j])
              /\ last'.op \in {"member_swap", "swap"} /\ last'.ok
              /\ MemberSwap(i, j) \/ FreeSwap(i, ci, j, cj)]_vars

\* the member swap has just run on a (still bound to x) and b (still bound to y)
C7_Witness ==
    /\ last.op = "member_swap" /\ last.ok
    /\ IsRef(ad["a"]) /\ ad["a"].bound = "x"
    /\ IsRef(ad["b"]) /\ ad["b"].bound = "y"
    /\ mem["x"] = InitMem["y"] /\ mem["y"] = InitMem["x"]

C9_SwapWithPlain ==
    [][\A i \in Slots, l \in PlainVars :
          /\ IsIntRef(ad[i]) /\ DeclType(l) = Ty("int", 0, FALSE, FALSE)
          /\ last'.op \in {"swap_plain", "plain_swap"}
          /\ SwapWithPlain(i, l) \/ SwapPlainWith(l, i)
          => /\ last'.ok
             /\ mem'[ad[i].bound] = mem[l]
             /\ mem'[l] = mem[ad[i].bound]
             /\ \A m \in Locs \ {l, ad[i].bound} : mem'[m] = mem[m]
             /\ ad' = ad
             /\ Holds(mem', ad', i) = mem'[ad[i].bound]]_vars

\* swap(y, a) has just exchanged y and x, a being bound to x
C9_Witness ==
    /\ last.op = "plain_swap" /\ last.ok
    /\ IsIntRef(ad["a"]) /\ ad["a"].bound = "x"
    /\ mem["x"] = InitMem["y"] /\ mem["y"] = InitMem["x"]
    /\ Holds(mem, ad, "a") = InitMem["y"]

\* C10: a swap of two adapters of different categories or wrapped types is
\* rejected statically: it never runs, and it changes no adapter and no object.
C10_IncompatibleSwapRejected ==
    [][\/ ~last'.ok /\ ad' = ad /\ mem' = mem
       \/ \A i, j \in Slots, ci, cj \in BOOLEAN :
            ~ /\ built(i) /\ built(j) /\ ad[i].T # ad[j].T
              /\ last'.op \in {"member_swap", "swap"}
              /\ MemberSwap(i, j) \/ FreeSwap(i, ci, j, cj)]_vars

\* a swap of an adapter bound to an int with one bound to a Point has just
\* been rejected
C10_Witness ==
    /\ last.op = "swap" /\ ~last.ok
    /\ IsIntRef(ad["a"])
    /\ IsRef(ad["b"]) /\ ad["b"].T.base = "Point"

\* an adapter of an array: the owning uni_auto<const T[N]>, or a reference
\* adapter bound to an array
IsArrayAdapter(a) == a # Unbuilt /\ has_range(a.T)
IsOwningArray(a) == a # Unbuilt /\ specialization(a.T) = "array"

\* the elements of the array adapter a wraps, in the memory m: the array it is
\* bound to, or (deduction yields an owning array adapter only for the const
\* array carr, which never changes) the array it was copied from
Origin(m, a) == IF a.bound # "none" THEN m[a.bound] ELSE m["carr"]

Rev(q) == [k \in 1..Len(q) |-> q[Len(q) + 1 - k]]

\* C11: for an array adapter, size() returns the number N of elements of the
\* wrapped array, and a walk from begin() to end() visits exactly size()
\* elements, the array's elements in the array's order.
C11_SizeAndOrder ==
    [][\A i \in Slots :
          last'.op \in {"size", "iterate"} /\ IsArrayAdapter(ad[i]) =>
            /\ last'.op = "size" /\ Size(i) =>
                 last'.ok /\ last'.res = <<Len(Origin(mem, ad[i]))>>
            /\ last'.op = "iterate" /\ Iterate(i) =>
                 /\ last'.ok
                 /\ last'.res = Origin(mem, ad[i])
                 /\ Len(last'.res) = size(State, i).res[1]]_vars

\* the owning adapter a of carr has just been iterated: N elements, in order
C11_Witness ==
    /\ last.op = "iterate" /\ last.ok
    /\ IsOwningArray(ad["a"]) /\ ~built("b")
    /\ last.res = InitMem["carr"] /\ Len(last.res) = ArrLen
    /\ last.res[1] # last.res[ArrLen]

\* C12: iterating an array adapter forward or backward changes neither the
\* adapter nor any object, visits N elements, and a further iteration yields
\* the same sequence again; the backward sequence is the reversal of the
\* forward one.
C12_RestartableReadOnly ==
    [][\A i \in Slots :
          /\ IsArrayAdapter(ad[i])
          /\ last'.op \in {"iterate", "iterate_reverse"}
          /\ Iterate(i) \/ IterateReverse(i)
          => LET t == [mem |-> mem', ad |-> ad']
             IN  /\ last'.ok
                 /\ mem' = mem /\ ad' = ad
                 /\ Len(last'.res) = ad[i].T.ext
                 /\ last'.op = "iterate" => iterate(t, i).res = last'.res
                 /\ last'.op = "iterate_reverse" =>
                      /\ iterate_reverse(t, i).res = last'.res
                      /\ iterate(t, i).res = Rev(last'.res)]_vars

\* the owning adapter a of carr has just been iterated backward
C12_Witness ==
    /\ last.op = "iterate_reverse" /\ last.ok
    /\ IsOwningArray(ad["a"]) /\ ~built("b")
    /\ last.res = Rev(InitMem["carr"])
    /\ last.res # InitMem["carr"]
    /\ ad["a"].value = InitMem["carr"]

\* C13: the decayed value of an array adapter is a pointer to the first
\* element (the pointer data() returns), and reading it at the offsets
\* 0..N-1 gives the wrapped array's elements in order.
C13_DecayedView ==
    [][\A i \in Slots :
          IsArrayAdapter(ad[i]) /\ last'.op = "simplify" /\ Simplify(i) =>
            /\ last'.ok
            /\ uni_auto_simplify_v(State, i).ptr
            /\ uni_auto_simplify_v(State, i).p = data(State, i)
            /\ last'.res = Origin(mem, ad[i])
            /\ \A k \in 0..(ad[i].T.ext - 1) :
                 deref(State, ptr_add(uni_auto_simplify_v(State, i).p, k)) = Origin(mem, ad[i])[k + 1]]_vars

\* the decayed value of the owning adapter a of carr has just been read
C13_Witness ==
    /\ last.op = "simplify" /\ last.ok
    /\ IsOwningArray(ad["a"]) /\ ~built("b")
    /\ last.res = InitMem["carr"]
    /\ uni_auto_simplify_v(State, "a").p.obj.own = "a"

\* C14: to_array on an array adapter (owning or bound to the program's array)
\* yields a collection with the same N elements in the same order and changes
\* nothing else; a later write to the program's array leaves the collection
\* unchanged, and a write to the collection leaves adapters and objects
\* unchanged.
C14_ToArrayIndependent ==
    /\ [][\A i \in Slots :
            IsArrayAdapter(ad[i]) /\ last'.op = "to_array" /\ ToArray(i) =>
              /\ last'.ok
              /\ coll' = Origin(mem, ad[i])
              /\ Len(coll') = ad[i].T.ext
              /\ mem' = mem /\ ad' = ad]_vars
    /\ [][last'.op = "write" => coll' = coll]_vars
    /\ [][last'.op = "write_coll" =>
            /\ mem' = mem /\ ad' = ad
            /\ \A i \in Slots : IsArrayAdapter(ad[i]) =>
                 Holds(mem', ad', i) = Holds(mem, ad, i)]_vars

\* the collection was made from an adapter bound to arr, and arr was written
\* afterwards
C14_Witness ==
    /\ last.op = "write"
    /\ IsArrayAdapter(ad["a"]) /\ ad["a"].bound = "arr"
    /\ coll = InitMem["arr"]
    /\ mem["arr"] # InitMem["arr"]
    /\ Holds(mem, ad, "a") = mem["arr"]

\* C15: for every shape of argument, deduction selects exactly one
\* specialization, hence exactly one category, and the adapter that is then
\* constructed is of that category.
C15_ClassificationTotal ==
    /\ last.op = "deduce" =>
         /\ last.ok
         /\ Cardinality({k \in DOMAIN last.res : last.res[k] = 1}) = 1
    /\ \A e \in Exprs : Cardinality(classify(e)) = 1
    /\ \A i \in Slots : built(i) /\ ad[i].bound # "none" =>
         classify(LvalueOf(ad[i].bound)) = {category(ad[i].T)}

\* deduction has just been done for the const int cx, which both guides that
\* take a reference to const accept
C15_Witness ==
    /\ last.op = "deduce" /\ last.ok
    /\ last.arg = mem["cx"]
    /\ guide_viable("G4", LvalueOf("cx")) /\ guide_viable("G5", LvalueOf("cx"))
    /\ classify(LvalueOf("cx")) = {"Scalar"}
    /\ last.res = <<0, 0, 1, 0>>
    /\ built("a") /\ built("b")

\* C16, as claimed: every built-in array, an lvalue or not, const or not, is
\* classified as the owning Array(N).
C16_ArrayAlwaysOwning ==
    [][\A i \in Slots, e \in Exprs :
          last'.op = "construct" /\ e.ty.ext > 0 /\ Construct(i, e) =>
            /\ category(ad'[i].T) = "Array"
            /\ ad'[i].T.ext = e.ty.ext]_vars

\* C16, amended: a built-in array with const elements is classified as the
\* owning Array(N) with N its element count; an array with non-const elements
\* (an lvalue) is classified as MutableRef, bound to the array, and still
\* reports N as its size.
C16_ConstArrayOwning ==
    [][\A i \in Slots, e \in Exprs :
          last'.op = "construct" /\ e.ty.ext > 0 /\ Construct(i, e) =>
            /\ e.ty.const =>
                 /\ category(ad'[i].T) = "Array"
                 /\ ad'[i].T.ext = e.ty.ext
                 /\ ad'[i].bound = "none"
            /\ ~e.ty.const =>
                 /\ category(ad'[i].T) = "MutableRef"
                 /\ ad'[i].bound = e.loc
            /\ size([mem |-> mem', ad |-> ad'], i).res = <<e.ty.ext>>]_vars

\* a was built from the const array carr, b from the array arr
C16_Witness ==
    /\ last.op = "construct"
    /\ built("a") /\ category(ad["a"].T) = "Array" /\ ad["a"].value = mem["carr"]
    /\ built("b") /\ category(ad["b"].T) = "MutableRef" /\ ad["b"].bound = "arr"

IsClassInstance(a) == a # Unbuilt /\ category(a.T) = "ClassInstance"

\* C18: a ClassInstance adapter embeds a copy of the instance it was built
\* from: right after construction magnitude() called on the adapter gives
\* what it gives on that instance, and at any time the call is accepted,
\* changes nothing and gives the magnitude of the embedded instance.
C18_ClassMembersReachable ==
    /\ [][last'.op = "construct" =>
            \A i \in Slots :
              ~built(i) /\ IsClassInstance(ad'[i]) =>
                /\ call_member([mem |-> mem', ad |-> ad'], i).ok
                /\ call_member([mem |-> mem', ad |-> ad'], i).res = <<magnitude(last'.arg)>>]_vars
    /\ [][\A i \in Slots :
            last'.op = "member" /\ IsClassInstance(ad[i]) /\ CallMember(i) =>
              /\ last'.ok
              /\ last'.res = <<magnitude(Holds(mem, ad, i))>>
              /\ mem' = mem /\ ad' = ad]_vars

\* magnitude() has just been called on an adapter built from the Point p
\* (3, 4) and returned 5, as p.magnitude() does
C18_Witness ==
    /\ last.op = "member" /\ last.ok
    /\ IsClassInstance(ad["a"]) /\ ~built("b")
    /\ ad["a"].value = mem["p"] /\ mem["p"] = <<3, 4>>
    /\ last.res = <<magnitude(mem["p"])>> /\ last.res = <<5>>

\* C19: a forwarded operator (+, +=, ++, call) applied to an adapter is
\* accepted only if the same operator is well-formed on the wrapped value
\* itself; a rejected use is rejected statically: nothing runs, nothing
\* changes and nothing is thrown.
C19_OperatorOnlyIfSupported ==
    [][last'.op \in {"plus", "plus_assign", "pre_inc", "call"} =>
          /\ ~last'.ok => mem' = mem /\ ad' = ad /\ last'.exc = "none"
          /\ last'.ok =>
               \A i \in Slots, k \in 0..MaxVal :
                 /\ last'.op = "plus" /\ Plus(i, k) =>
                      builtin_plus_valid(wrapped(State, i))
                 /\ last'.op = "plus_assign" /\ PlusAssign(i, k) =>
                      builtin_plus_assign_valid(wrapped(State, i))
                 /\ last'.op = "pre_inc" /\ PreInc(i) =>
                      builtin_pre_inc_valid(wrapped(State, i))
                 /\ last'.op = "call" /\ Call(i, k) =>
                      builtin_call_valid(wrapped(State, i))]_vars

\* a += on an adapter bound to the Point p, which has no +=, has just been
\* rejected
C19_Witness ==
    /\ last.op = "plus_assign" /\ ~last.ok /\ last.exc = "none"
    /\ IsRef(ad["a"]) /\ ad["a"].bound = "p" /\ ~built("b")
    /\ ~builtin_plus_assign_valid(wrapped(State, "a"))
    /\ mem = InitMem

\* C20: an operation made through adapters (+=, member swap, free swap, swap
\* with a plain object) ends as the same operation on the wrapped values
\* ends: it throws to the caller exactly when that one throws, and leaves
\* the objects as that one leaves them.
C20_FailureTransparent ==
    [][last'.ok /\ last'.op \in {"plus_assign", "member_swap", "swap", "swap_plain"} =>
          /\ \A i \in Slots, k \in 0..MaxVal :
               last'.op = "plus_assign" /\ PlusAssign(i, k) =>
                 /\ last'.exc = plus_assign(State, wrapped(State, i), k).exc
                 /\ mem' = plus_assign(State, wrapped(State, i), k).mem
          /\ \A i, j \in Slots :
               /\ last'.op \in {"member_swap", "swap"}
               /\ MemberSwap(i, j) \/ FreeSwap(i, TRUE, j, TRUE)
               => /\ last'.exc = std_swap(State, wrapped(State, i), wrapped(State, j)).exc
                  /\ mem' = std_swap(State, wrapped(State, i), wrapped(State, j)).mem
          /\ \A i \in Slots, l \in {"x", "t", "u"} :
               last'.op = "swap_plain" /\ SwapWithPlain(i, l) =>
                 /\ last'.exc = std_swap(State, wrapped(State, i), LvalueOf(l)).exc
                 /\ mem' = std_swap(State, wrapped(State, i), LvalueOf(l)).mem]_vars

\* the objects other than the one adapter i is bound to
Others(i) == AllLocs \ {ad[i].bound}

\* C21: an accepted forwarded operator does to the state what one application
\* of the underlying operator to the wrapped value does, and nothing else: +
\* and a call change nothing, += adds its operand once, ++ adds one once, -- takes
\* one once, each to the wrapped object only, and no adapter changes.
C21_OnceAndNothingElse ==
    [][last'.ok /\ last'.op \in {"plus", "call", "plus_assign", "pre_inc", "pre_dec"} =>
          /\ ad' = ad
          /\ last'.op \in {"plus", "call"} => mem' = mem
          /\ \A i \in Slots, k \in 0..MaxVal :
               last'.op = "plus_assign" /\ PlusAssign(i, k) =>
                 /\ mem' = plus_assign(State, wrapped(State, i), k).mem
                 /\ last'.exc = "none" => mem'[ad[i].bound] = <<mem[ad[i].bound][1] + k>>
                 /\ \A l \in Others(i) : mem'[l] = mem[l]
          /\ \A i \in Slots :
               /\ last'.op = "pre_inc" /\ PreInc(i) =>
                    /\ mem'[ad[i].bound] = <<mem[ad[i].bound][1] + 1>>
                    /\ \A l \in Others(i) : mem'[l] = mem[l]
               /\ last'.op = "pre_dec" /\ PreDec(i) =>
                    /\ mem'[ad[i].bound] = <<mem[ad[i].bound][1] - 1>>
                    /\ \A l \in Others(i) : mem'[l] = mem[l]]_vars

\* ++ through an adapter bound to x has just changed x from 0 to 1, and
\* nothing else
C21_Witness ==
    /\ last.op = "pre_inc" /\ last.ok
    /\ IsIntRef(ad["a"]) /\ ad["a"].bound = "x" /\ ~built("b")
    /\ mem["x"] = <<InitMem["x"][1] + 1>>
    /\ \A l \in AllLocs \ {"x"} : mem[l] = InitMem[l]

AdapterOps ==
    {"native", "size", "iterate", "iterate_reverse", "data", "empty",
     "simplify", "to_array", "member", "plus",
     "plus_assign", "pre_inc", "pre_dec", "post_inc", "post_dec",
     "member_swap", "swap", "swap_plain", "plain_swap"}

C24_NeverRebound ==
    [][/\ \A i \in Slots : IsRef(ad[i]) =>
            /\ ad'[i] = ad[i]
            /\ Read([mem |-> mem', ad |-> ad'], operator_type([mem |-> mem', ad |-> ad'], i))
                   = mem'[ad[i].bound]
       /\ last'.op = "assign" /\ last'.ok =>
            \A i \in Slots, ci \in BOOLEAN, b \in AssignExprs :
                IsRef(ad[i]) /\ OperatorAssign(i, ci, b) =>
                    /\ mem'[ad[i].bound] = Read(State, b)
                    /\ last'.res = Read(State, b)
                    /\ \A l \in Others(i) : mem'[l] = mem[l]]_vars

\* both adapters are bound to x; after ++, += and a swap with y, the value 1
\* has just been assigned through a, and is read through b
C24_Witness ==
    /\ last.op = "assign" /\ last.ok /\ last.arg = <<1>>
    /\ IsIntRef(ad["a"]) /\ ad["a"].bound = "x"
    /\ IsIntRef(ad["b"]) /\ ad["b"].bound = "x"
    /\ mem["x"] = <<1>> /\ mem["y"] = InitMem["x"]
    /\ Read(State, operator_type(State, "b")) = <<1>>

\* C25: size, data, empty and iteration forwards and backwards (begin/end,
\* rbegin/rend) are accepted if and only if the adapter wraps a built-in
\* array, its own or one it is bound to; on any other adapter, a Scalar or a
\* reference to a non-array among them, the call is rejected by the compiler:
\* nothing runs, nothing changes, nothing is thrown.
C25_RangeOnlyOnArrays ==
    [][last'.op \in {"size", "data", "empty", "iterate", "iterate_reverse"} =>
          \A i \in Slots :
              \/ ~(\/ last'.op = "size" /\ Size(i)
                   \/ last'.op = "data" /\ Data(i)
                   \/ last'.op = "empty" /\ Empty(i)
                   \/ last'.op = "iterate" /\ Iterate(i)
                   \/ last'.op = "iterate_reverse" /\ IterateReverse(i))
              \/ /\ last'.ok <=> wrapped(State, i).ty.ext > 0
                 /\ last'.exc = "none"
                 /\ mem' = mem /\ ad' = ad
                 /\ ~last'.ok => last'.res = NoResult]_vars

\* iteration was requested on b, bound to the int x, and rejected; a is a
\* Scalar
C25_Witness ==
    /\ last.op = "iterate" /\ ~last.ok
    /\ built("a") /\ category(ad["a"].T) = "Scalar"
    /\ IsIntRef(ad["b"]) /\ ad["b"].bound = "x"

\* C26: the construction of an owning array adapter from an array of N
\* elements performs N element copies, one for each index 0 .. N-1 and none
\* twice, and stores the k-th copy as element k: afterwards the adapter holds
\* N elements, element i equal to element i of the source, which is unchanged.
C26_ElementwiseCopy ==
    [][last'.op = "construct" =>
          \A i \in Slots, e \in Exprs :
              \/ ~(/\ e.ty.ext > 0
                   /\ \/ Construct(i, e) /\ category(ad'[i].T) = "Array"
                      \/ ConstructOwning(i, e, Ty("int", ArrLen, TRUE, FALSE)))
              \/ LET N == e.ty.ext
                     src == mem[e.loc]
                     c == element_copies(src, N)
                 IN  /\ Len(c) = N
                     /\ {c[k].index : k \in 1..N} = 0..(N - 1)
                     /\ Len(ad'[i].value) = N
                     /\ \A k \in 1..N : ad'[i].value[k] = c[k].val
                     /\ \A k \in 0..(N - 1) : ad'[i].value[k + 1] = src[k + 1]
                     /\ mem' = mem]_vars

\* b has just been built as an owning copy of the array arr, which the
\* program had written before; a is an owning copy of carr
C26_Witness ==
    /\ last.op = "construct"
    /\ IsOwningArray(ad["a"]) /\ ad["a"].value = mem["carr"]
    /\ IsOwningArray(ad["b"]) /\ ad["b"].value = mem["arr"]
    /\ mem["arr"] # InitMem["arr"] /\ last.arg = mem["arr"]
    /\ Len(ad["b"].value) = ArrLen

\* C27: ++ and -- through an adapter bound to an int change that int by
\* exactly one (up, respectively down); the prefix forms yield the new value,
\* the postfix forms the value before; every adapter bound to the same int,
\* and the program itself, read the new value afterwards.
C27_IncDecThroughRef ==
    [][last'.op \in {"pre_inc", "post_inc", "pre_dec", "post_dec"} =>
          \A i \in Slots :
              \/ ~IsIntRef(ad[i])
              \/ ~(\/ last'.op = "pre_inc" /\ PreInc(i)
                   \/ last'.op = "post_inc" /\ PostInc(i)
                   \/ last'.op = "pre_dec" /\ PreDec(i)
                   \/ last'.op = "post_dec" /\ PostDec(i))
              \/ LET old == mem[ad[i].bound][1]
                     new == IF last'.op \in {"pre_inc", "post_inc"} THEN old + 1 ELSE old - 1
                 IN  /\ last'.ok /\ last'.exc = "none"
                     /\ mem'[ad[i].bound] = <<new>>
                     /\ last'.res = IF last'.op \in {"pre_inc", "pre_dec"} THEN <<new>> ELSE <<old>>
                     /\ \A j \in Slots : IsRef(ad[j]) /\ ad[j].bound = ad[i].bound =>
                          /\ ad'[j] = ad[j]
                          /\ Holds(mem', ad', j) = <<new>>
                     /\ \A l \in Others(i) : mem'[l] = mem[l]]_vars

\* a and b are both bound to x; a postfix -- through one of them has just
\* yielded 1 and left 0 in x, which an earlier ++ had raised to 1
C27_Witness ==
    /\ last.op = "post_dec" /\ last.ok /\ last.res = <<1>>
    /\ IsIntRef(ad["a"]) /\ ad["a"].bound = "x"
    /\ IsIntRef(ad["b"]) /\ ad["b"].bound = "x"
    /\ mem["x"] = <<0>>
    /\ Holds(mem, ad, "a") = <<0>> /\ Holds(mem, ad, "b") = <<0>>

\* C28: an accepted && or || with an adapter as an operand leaves the state
\* and yields the result that the built-in operator leaves and yields on the
\* wrapped values: the right operand expression is evaluated, and its store
\* made, only if the left operand does not decide the result.
C28_ShortCircuit ==
    [][last'.op \in {"and", "or"} /\ last'.ok =>
          \A L, R \in AllOperands, v \in 0..MaxVal :
              \/ ~(\/ last'.op = "and" /\ LogicalAnd(L, R, v)
                   \/ last'.op = "or" /\ LogicalOr(L, R, v))
              \/ LET r == builtin_logical(last'.op, State, L, R, v)
                 IN  mem' = r.mem /\ ad' = r.ad /\ last'.res = r.res]_vars

\* the value an operand stands for without the adapter: the wrapped object,
\* or the plain int
Underlying(X) ==
    IF X.ad = "none" THEN X.val ELSE Read(State, wrapped(State, X.ad))[1]

\* C29: an accepted + or -, whether of two adapters, of a plain int and an
\* adapter, or of an adapter and a plain int, yields what the built-in
\* operator yields on the underlying values with the left operand on the left
\* and the right operand on the right, and changes nothing.
C29_OperandOrder ==
    [][last'.op \in {"add", "sub"} /\ last'.ok =>
          \A L, R \in AllOperands :
              \/ ~(\/ last'.op = "add" /\ Add(L, R)
                   \/ last'.op = "sub" /\ Subtract(L, R))
              \/ /\ last'.res = <<IF last'.op = "add"
                                  THEN Underlying(L) + Underlying(R)
                                  ELSE Underlying(L) - Underlying(R)>>
                 /\ mem' = mem /\ ad' = ad]_vars

\* a is bound to x, b owns a copy of cx, with different values; a
\* subtraction has yielded x - cx, which is not cx - x
C29_Witness ==
    /\ last.op = "sub" /\ last.ok
    /\ IsIntRef(ad["a"]) /\ ad["a"].bound = "x"
    /\ IsOwning(ad["b"]) /\ ad["b"].value = mem["cx"]
    /\ last.res = <<mem["x"][1] - mem["cx"][1]>>
    /\ mem["x"][1] - mem["cx"][1] # mem["cx"][1] - mem["x"][1]

\* the lvalues the program can hand to a constructor
Lvalues == {e \in Exprs \cup ShapeExprs : e.cat = "lvalue"}

\* the condition C30 gives for wrapping a const lvalue of type const T by
\* value: T is not volatile, is trivially copyable, is not a string view, is
\* not a pointer to a const character type, and is or points to a scalar, a
\* class or a function type
ByValueCondition(T) ==
    /\ ~is_volatile_v(T)
    /\ is_trivially_copyable_v(T)
    /\ ~is_string_view(T)
    /\ ~(is_pointer_v(T) /\ remove_pointer_t(T).base = "char" /\ remove_pointer_t(T).const)
    /\ \/ is_scalar_v(T) \/ is_class_v(T) \/ is_function_v(T)
       \/ /\ is_pointer_v(T)
          /\ \/ is_scalar_v(remove_pointer_t(T)) \/ is_class_v(remove_pointer_t(T))
             \/ is_function_v(remove_pointer_t(T))

\* the same condition, with its last part read on the pointee alone when T is
\* a pointer: a pointer must point to a scalar, a class or a function type,
\* any other T must be a scalar or a class type itself
ByValueConditionPointee(T) ==
    /\ ~is_volatile_v(T)
    /\ is_trivially_copyable_v(T)
    /\ ~is_string_view(T)
    /\ ~(is_pointer_v(T) /\ remove_pointer_t(T).base = "char" /\ remove_pointer_t(T).const)
    /\ IF is_pointer_v(T)
       THEN \/ is_scalar_v(remove_pointer_t(T)) \/ is_class_v(remove_pointer_t(T))
            \/ is_function_v(remove_pointer_t(T))
       ELSE is_scalar_v(T) \/ is_class_v(T)

\* the adapter a built for e owns a copy of e by value
WrappedByValue(a, e) ==
    /\ specialization(a.T) \in {"value", "class"}
    /\ a.T = add_const_t(remove_const_t(e.ty))
    /\ a.bound = "none" /\ a.value = mem[e.loc]

\* the adapter is an alias of e, to const or not
WrappedByReference(a, e, const) ==
    /\ specialization(a.T) = "ref"
    /\ a.T.const = const
    /\ a.bound = e.loc

\* C30, as claimed: a const lvalue is wrapped by value exactly when its type
\* meets the condition, every other const lvalue is wrapped as an alias to
\* const, and every non-const lvalue as an alias to non-const.
C30_ConstLvalueByValue ==
    [][last'.op = "construct" =>
          \A i \in Slots, e \in Lvalues :
              \/ ~Construct(i, e)
              \/ IF e.ty.const
                 THEN IF ByValueCondition(remove_const_t(e.ty))
                      THEN WrappedByValue(ad'[i], e)
                      ELSE WrappedByReference(ad'[i], e, TRUE)
                 ELSE WrappedByReference(ad'[i], e, FALSE)]_vars

\* C30, amended: a const lvalue of array type is wrapped as an owning Array
\* holding a copy of its elements; a const lvalue of any other type is wrapped
\* by value exactly when its type is non-volatile, trivially copyable, not a
\* string view, not a pointer to a const character type, and is a scalar or
\* class type or, if it is a pointer, points to a scalar, class or function
\* type (a pointer to an array does not qualify); it is wrapped as an alias to
\* const otherwise; every non-const lvalue is wrapped as an alias to non-const.
C30_ConstLvalueByValueOrArray ==
    [][last'.op = "construct" =>
          \A i \in Slots, e \in Lvalues :
              \/ ~Construct(i, e)
              \/ IF e.ty.const
                 THEN IF e.ty.ext > 0
                      THEN /\ specialization(ad'[i].T) = "array"
                           /\ ad'[i].T = e.ty
                           /\ ad'[i].bound = "none" /\ ad'[i].value = mem[e.loc]
                      ELSE IF ByValueConditionPointee(remove_const_t(e.ty))
                           THEN WrappedByValue(ad'[i], e)
                           ELSE WrappedByReference(ad'[i], e, TRUE)
                 ELSE WrappedByReference(ad'[i], e, FALSE)]_vars

\* a was built from the const Th ct, which is not trivially copyable, as an
\* alias to const; b has just been built from the const Point cp by value
C30_Witness ==
    /\ last.op = "construct"
    /\ built("a") /\ ad["a"].T = Ty("Th", 0, TRUE, TRUE) /\ ad["a"].bound = "ct"
    /\ built("b") /\ ad["b"].T = Ty("Point", 0, TRUE, FALSE) /\ ad["b"].bound = "none"
    /\ ad["b"].value = mem["cp"]
    /\ ~ByValueConditionPointee(Ty("Th", 0, FALSE, FALSE))
    /\ ByValueConditionPointee(Ty("Point", 0, FALSE, FALSE))

====
